---------------------------- MODULE Spec2Model ----------------------------
(***************************************************************************)
(* A model of the L-E-G simulator core: the register file, the DRAM, the   *)
(* direct-mapped cache, the instruction factory, the per-instruction stage *)
(* functions and the control unit's step() in both of its modes.           *)
(*                                                                         *)
(* A u32 is a pair <<hi, lo>> of 16-bit halves (value hi * 2^16 + lo):     *)
(* TLC's integers are 32-bit signed, and the program produces words with   *)
(* bit 31 set (DMCache::get_idx_address puts the tag in the top bits).     *)
(***************************************************************************)
EXTENDS Integers, Sequences, FiniteSets, TLC

\* ------------------------------------------------------------------ words

Half == 2 ^ 16

Pow2(n) == 2 ^ n

\* The u32 with value n, for 0 <= n < 2^31.
W(n) == <<n \div Half, n % Half>>

\* The value of a u32 below 2^31 (used for register indices and small fields).
Val(w) == w[1] * Half + w[2]

\* u32 addition, wrapping at 2^32.
WAdd(a, b) ==
    LET lo == a[2] + b[2]
        hi == a[1] + b[1] + (lo \div Half)
    IN  <<hi % Half, lo % Half>>

\* a < b on u32.
WLt(a, b) == a[1] < b[1] \/ (a[1] = b[1] /\ a[2] < b[2])

\* bit_field get_bits(a..=b) of a u32, as a number (fields are at most 22 bits).
GetBits(w, a, b) ==
    IF b < 16 THEN (w[2] \div Pow2(a)) % Pow2(b - a + 1)
    ELSE IF a >= 16 THEN (w[1] \div Pow2(a - 16)) % Pow2(b - a + 1)
    ELSE (w[2] \div Pow2(a)) + (w[1] % Pow2(b - 15)) * Pow2(16 - a)

\* w >> k on u32, for 0 < k < 16.
ShiftRight(w, k) ==
    <<w[1] \div Pow2(k), (w[2] \div Pow2(k)) + (w[1] % Pow2(k)) * Pow2(16 - k)>>

\* w << k and w >> k on u32, and w >> k on i32, for 0 <= k < 32.
Shl(w, k) ==
    IF k >= 16 THEN <<(w[2] * Pow2(k - 16)) % Half, 0>>
    ELSE <<(w[1] * Pow2(k) + (w[2] * Pow2(k)) \div Half) % Half,
           (w[2] * Pow2(k)) % Half>>

Shr(w, k) ==
    IF k >= 16 THEN <<0, w[1] \div Pow2(k - 16)>>
    ELSE <<w[1] \div Pow2(k),
           (w[2] \div Pow2(k)) + (w[1] % Pow2(k)) * Pow2(16 - k)>>

Sar(w, k) ==
    LET Flip(x) == <<Half - 1 - x[1], Half - 1 - x[2]>>
    IN  IF w[1] >= Half \div 2 THEN Flip(Shr(Flip(w), k)) ELSE Shr(w, k)

\* --------------------------------------------------------------- registers

REGISTERS_SIZE == 32
INTLR == 26
IHDLR == 27
PC == 28
STS == 29
SP == 30
LR == 31

\* Registers::new(): every register zero.
RegistersNew == [i \in 0..(REGISTERS_SIZE - 1) |-> W(0)]


\* ------------------------------------------------------------------ state

VARIABLES
    \* ControlUnit fields
    pipeline_enabled, cache_enabled, cycle_count, registers,
    first_instruction_loaded, halt_encountered,
    no_pipeline_instruction, fetch_instruction, fetch_instruction_bits,
    decode_instruction, execute_instruction, access_mem_instruction,
    write_back_instruction,
    \* DRAM fields
    dram_delay, dram_data,
    \* DMCache fields
    cache_delay, num_lines, lines,
    \* what the caller of step() observes, and the history of the run
    outcome, stepno, last, hist

cu_vars == <<pipeline_enabled, cache_enabled, cycle_count, registers,
             first_instruction_loaded, halt_encountered,
             no_pipeline_instruction, fetch_instruction,
             fetch_instruction_bits, decode_instruction,
             execute_instruction, access_mem_instruction,
             write_back_instruction>>

mem_vars == <<dram_delay, dram_data, cache_delay, num_lines, lines>>

vars == <<cu_vars, mem_vars, outcome, stepno, last, hist>>

\* An empty Option<Box<dyn Instruction>>.
None == [kind |-> "None"]

\* ------------------------------------------------------------------- DRAM

\* The memory system a step works on: the DRAM's map and the cache's lines.
\* The cache's base is the same DRAM the control unit holds.
MemState == [data |-> dram_data, lines |-> lines]

\* Faulty variant of DRAMGet: an absent address reads as 0 and is not
\* inserted.
DRAMGetNoInsert(data, address) ==
    [data |-> data, wait |-> dram_delay,
     val |-> IF address \in DOMAIN data THEN data[address] ELSE W(0)]

\* impl Memory for DRAM: get. A read of an absent address inserts 0.
DRAMGet(data, address) ==
    IF address \in DOMAIN data
    THEN [data |-> data, wait |-> dram_delay, val |-> data[address]]
    ELSE [data |-> [a \in (DOMAIN data) \cup {address} |->
                        IF a = address THEN W(0) ELSE data[a]],
          wait |-> dram_delay, val |-> W(0)]

\* Faulty variant of DRAMSet: a word already present is kept.
DRAMSetKeepExisting(data, address, v) ==
    [data |-> [a \in (DOMAIN data) \cup {address} |->
                   IF a \in DOMAIN data THEN data[a] ELSE v],
     wait |-> dram_delay]

\* impl Memory for DRAM: set.
DRAMSet(data, address, v) ==
    [data |-> [a \in (DOMAIN data) \cup {address} |->
                   IF a = address THEN v ELSE data[a]],
     wait |-> dram_delay]

\* ------------------------------------------------------------------ cache

\* ceil(log2(n)) for n >= 1, as DMCache::new computes idx_bits.
RECURSIVE Log2Ceil(_)
Log2Ceil(n) == IF n <= 1 THEN 0 ELSE 1 + Log2Ceil((n + 1) \div 2)

idx_bits == Log2Ceil(num_lines)

tag_bits == 32 - idx_bits

\* impl InspectableMemory for DRAM: inspect, a copy of the map.
inspect == dram_data

\* Faulty variant of DMCacheLineNew: the line starts valid.
DMCacheLineNewValid ==
    [tag |-> W(0), data |-> W(0), valid |-> TRUE, dirty |-> FALSE]

\* DMCacheLine::new()
DMCacheLineNew == [tag |-> W(0), data |-> W(0), valid |-> FALSE, dirty |-> FALSE]

\* Whether the u32 v fits in `width` bits (set_bits asserts it).
Fits(v, width) ==
    IF width >= 32 THEN TRUE
    ELSE IF width > 16 THEN v[1] < Pow2(width - 16)
    ELSE v[1] = 0 /\ v[2] < Pow2(width)

\* Bits a..b of the 16-bit half h replaced by v.
SetHalf(h, a, b, v) ==
    h - ((h \div Pow2(a)) % Pow2(b - a + 1)) * Pow2(a) + v * Pow2(a)

\* bit_field set_bits(a..=b, v) on a u32, for a v that fits.
SetBits(w, a, b, v) ==
    IF b < 16 THEN <<w[1], SetHalf(w[2], a, b, v[2])>>
    ELSE IF a >= 16 THEN <<SetHalf(w[1], a - 16, b - 16, v[2]), w[2]>>
    ELSE IF a = 0 THEN <<SetHalf(w[1], 0, b - 16, v[1]), v[2]>>
    ELSE <<SetHalf(w[1], 0, b - 16, ShiftRight(v, 16 - a)[2]),
           SetHalf(w[2], a, 15, v[2] % Pow2(16 - a))>>

\* DMCache::get_address_index
get_address_index(address) == GetBits(address, 0, idx_bits - 1)

\* DMCache::get_address_tag
get_address_tag(address) == ShiftRight(address, idx_bits)

\* DMCache::get_idx_address. set_bits panics when the value does not fit the
\* range; the index goes to bits 0..tag_bits-1 and the tag to the bits above.
get_idx_address(idx, tag) ==
    IF ~Fits(W(idx), tag_bits) \/ ~Fits(tag, 32 - tag_bits)
    THEN [panic |-> TRUE, addr |-> W(0)]
    ELSE [panic |-> FALSE,
          addr |-> SetBits(SetBits(W(0), 0, tag_bits - 1, W(idx)),
                           tag_bits, 31, tag)]

\* Faulty variant of CacheGet: the line is never used, every get goes to the
\* base.
CacheGetNoHit(ms, address) ==
    LET Read(got) ==
            [data |-> got.data, lines |-> ms.lines,
             wait |-> cache_delay + got.wait, val |-> got.val,
             panic |-> FALSE, base_ops |-> <<<<"get", address>>>>]
    IN  Read(DRAMGet(ms.data, address))

\* Faulty variant of CacheGet: the latency of the eviction's base set is
\* left out of the total.
CacheGetEvictionUncounted(ms, address) ==
    LET Miss(idx, tag, line, evict, ev, got) ==
            [data |-> got.data,
             lines |-> [ms.lines EXCEPT ![idx] =
                           [tag |-> tag, data |-> got.val,
                            valid |-> TRUE, dirty |-> FALSE]],
             wait |-> cache_delay + got.wait,
             val |-> got.val, panic |-> FALSE,
             base_ops |-> (IF evict THEN <<<<"set", address, line.data>>>>
                           ELSE <<>>) \o <<<<"get", address>>>>]
        Evicted(idx, tag, line, evict, ev) ==
            Miss(idx, tag, line, evict, ev, DRAMGet(ev.data, address))
        Conflict(idx, tag, line, evict) ==
            Evicted(idx, tag, line, evict,
                    IF evict THEN DRAMSet(ms.data, address, line.data)
                    ELSE [data |-> ms.data, wait |-> 0])
        Lookup(idx, tag, line) ==
            IF line.valid /\ line.tag = tag
            THEN [data |-> ms.data, lines |-> ms.lines, wait |-> cache_delay,
                  val |-> line.data, panic |-> FALSE, base_ops |-> <<>>]
            ELSE Conflict(idx, tag, line,
                          line.valid /\ line.tag # tag /\ line.dirty)
        Indexed(idx) == Lookup(idx, get_address_tag(address), ms.lines[idx])
    IN  Indexed(get_address_index(address))

\* impl Memory for DMCache: get. base_ops lists the calls made on the base.
CacheGet(ms, address) ==
    LET Miss(idx, tag, line, evict, ev, got) ==
            [data |-> got.data,
             lines |-> [ms.lines EXCEPT ![idx] =
                           [tag |-> tag, data |-> got.val,
                            valid |-> TRUE, dirty |-> FALSE]],
             wait |-> cache_delay + ev.wait + got.wait,
             val |-> got.val, panic |-> FALSE,
             base_ops |-> (IF evict THEN <<<<"set", address, line.data>>>>
                           ELSE <<>>) \o <<<<"get", address>>>>]
        Evicted(idx, tag, line, evict, ev) ==
            Miss(idx, tag, line, evict, ev, DRAMGet(ev.data, address))
        Conflict(idx, tag, line, evict) ==
            Evicted(idx, tag, line, evict,
                    IF evict THEN DRAMSet(ms.data, address, line.data)
                    ELSE [data |-> ms.data, wait |-> 0])
        Lookup(idx, tag, line) ==
            IF line.valid /\ line.tag = tag
            THEN [data |-> ms.data, lines |-> ms.lines, wait |-> cache_delay,
                  val |-> line.data, panic |-> FALSE, base_ops |-> <<>>]
            ELSE Conflict(idx, tag, line,
                          line.valid /\ line.tag # tag /\ line.dirty)
        Indexed(idx) == Lookup(idx, get_address_tag(address), ms.lines[idx])
    IN  Indexed(get_address_index(address))

\* Faulty variant of CacheSet: a miss writes the word to the base and leaves
\* the line as it is.
CacheSetNoAllocate(ms, address, v) ==
    LET Lookup(idx, tag, line) ==
            IF line.valid /\ line.tag = tag
            THEN [data |-> ms.data,
                  lines |-> [ms.lines EXCEPT ![idx].dirty = TRUE,
                                             ![idx].data = v],
                  wait |-> cache_delay, panic |-> FALSE, base_ops |-> <<>>]
            ELSE [data |-> DRAMSet(ms.data, address, v).data,
                  lines |-> ms.lines, wait |-> cache_delay + dram_delay,
                  panic |-> FALSE, base_ops |-> <<<<"set", address, v>>>>]
        Indexed(idx) == Lookup(idx, get_address_tag(address), ms.lines[idx])
    IN  Indexed(get_address_index(address))

\* Faulty variant of CacheSet: a set that hits stores the word and leaves
\* the line's dirty flag as it is.
CacheSetHitKeepsFlag(ms, address, v) ==
    LET Miss(idx, tag, line, evict, old, ev) ==
            IF evict /\ old.panic
            THEN [data |-> ms.data, lines |-> ms.lines, wait |-> 0,
                  panic |-> TRUE, base_ops |-> <<>>]
            ELSE [data |-> ev.data,
                  lines |-> [ms.lines EXCEPT ![idx] =
                                [tag |-> tag, data |-> v,
                                 valid |-> TRUE, dirty |-> TRUE]],
                  wait |-> cache_delay + ev.wait, panic |-> FALSE,
                  base_ops |-> IF evict
                               THEN <<<<"set", old.addr, line.data>>>>
                               ELSE <<>>]
        Evicted(idx, tag, line, evict, old) ==
            Miss(idx, tag, line, evict, old,
                 IF evict THEN DRAMSet(ms.data, old.addr, line.data)
                 ELSE [data |-> ms.data, wait |-> 0])
        Conflict(idx, tag, line, evict) ==
            Evicted(idx, tag, line, evict,
                    IF evict THEN get_idx_address(idx, line.tag)
                    ELSE [panic |-> FALSE, addr |-> W(0)])
        Lookup(idx, tag, line) ==
            IF line.valid /\ line.tag = tag
            THEN [data |-> ms.data,
                  lines |-> [ms.lines EXCEPT ![idx].data = v],
                  wait |-> cache_delay, panic |-> FALSE, base_ops |-> <<>>]
            ELSE Conflict(idx, tag, line,
                          line.valid /\ line.tag # tag /\ line.dirty)
        Indexed(idx) == Lookup(idx, get_address_tag(address), ms.lines[idx])
    IN  Indexed(get_address_index(address))

\* impl Memory for DMCache: set.
CacheSet(ms, address, v) ==
    LET Miss(idx, tag, line, evict, old, ev) ==
            IF evict /\ old.panic
            THEN [data |-> ms.data, lines |-> ms.lines, wait |-> 0,
                  panic |-> TRUE, base_ops |-> <<>>]
            ELSE [data |-> ev.data,
                  lines |-> [ms.lines EXCEPT ![idx] =
                                [tag |-> tag, data |-> v,
                                 valid |-> TRUE, dirty |-> TRUE]],
                  wait |-> cache_delay + ev.wait, panic |-> FALSE,
                  base_ops |-> IF evict
                               THEN <<<<"set", old.addr, line.data>>>>
                               ELSE <<>>]
        Evicted(idx, tag, line, evict, old) ==
            Miss(idx, tag, line, evict, old,
                 IF evict THEN DRAMSet(ms.data, old.addr, line.data)
                 ELSE [data |-> ms.data, wait |-> 0])
        Conflict(idx, tag, line, evict) ==
            Evicted(idx, tag, line, evict,
                    IF evict THEN get_idx_address(idx, line.tag)
                    ELSE [panic |-> FALSE, addr |-> W(0)])
        Lookup(idx, tag, line) ==
            IF line.valid /\ line.tag = tag
            THEN [data |-> ms.data,
                  lines |-> [ms.lines EXCEPT ![idx].dirty = TRUE,
                                             ![idx].data = v],
                  wait |-> cache_delay, panic |-> FALSE, base_ops |-> <<>>]
            ELSE Conflict(idx, tag, line,
                          line.valid /\ line.tag # tag /\ line.dirty)
        Indexed(idx) == Lookup(idx, get_address_tag(address), ms.lines[idx])
    IN  Indexed(get_address_index(address))

\* The memory step() hands to the stages: the cache when cache_enabled,
\* else the DRAM.
MemGet(ms, address) ==
    IF cache_enabled THEN CacheGet(ms, address)
    ELSE LET g == DRAMGet(ms.data, address)
         IN  [data |-> g.data, lines |-> ms.lines, wait |-> g.wait,
              val |-> g.val, panic |-> FALSE, base_ops |-> <<>>]

MemSet(ms, address, v) ==
    IF cache_enabled THEN CacheSet(ms, address, v)
    ELSE LET s == DRAMSet(ms.data, address, v)
         IN  [data |-> s.data, lines |-> ms.lines, wait |-> s.wait,
              panic |-> FALSE, base_ops |-> <<>>]

\* ----------------------------------------------------------- instructions

\* ConditionCodes::value
CC_NS == 0
CC_E == 2
CC_GT == 3
CC_LT == 4

\* `InterruptCodes::X as u32` is the variant's position in the enum.
IC_NOT_SET_INITIAL == 7
IC_NOT_SET == 8

\* Whether a + b leaves the u32 range (a panic in a build with overflow
\* checks, a wrap in one without).
AddOverflows(a, b) == a[1] + b[1] + ((a[2] + b[2]) \div Half) >= Half

\* u32 subtraction, wrapping.
WSub(a, b) ==
    LET borrow == IF a[2] < b[2] THEN 1 ELSE 0
    IN  <<(a[1] - b[1] - borrow + Half) % Half, (a[2] - b[2] + Half) % Half>>

\* The sign bit of a word read as i32, its negation and its magnitude.
IsNeg(w) == w[1] >= Half \div 2
Neg(w) == WSub(W(0), w)
Abs(w) == IF IsNeg(w) THEN Neg(w) ELSE w

\* x * y for two 16-bit halves, as a word.
Mul16(x, y) ==
    WAdd(<<((x \div 256) * y) \div 256, (((x \div 256) * y) % 256) * 256>>,
         W((x % 256) * y))

\* a * b on u32 from the products of the halves: the low 32 bits of the
\* product, and whether the product does not fit 32 bits.
UMul(a, b) ==
    LET Sum(cross, low) ==
            [val |-> <<WAdd(cross, <<0, low[1]>>)[2], low[2]>>,
             ovf |-> \/ (a[1] > 0 /\ b[1] > 0)
                     \/ AddOverflows(Mul16(a[1], b[2]), Mul16(a[2], b[1]))
                     \/ AddOverflows(cross, <<0, low[1]>>)
                     \/ WAdd(cross, <<0, low[1]>>)[1] > 0]
    IN  Sum(WAdd(Mul16(a[1], b[2]), Mul16(a[2], b[1])), Mul16(a[2], b[2]))

\* a / b on u32 for b > 0: the largest quotient whose product with b is
\* at most a, found bit by bit from bit i down to bit low, first for the
\* high half of the quotient and then for the low half.
RECURSIVE UDivBits(_, _, _, _, _)
UDivBits(a, b, i, low, q) ==
    IF i < low THEN q
    ELSE LET Try(product) ==
                 IF ~product.ovf /\ ~WLt(a, product.val)
                 THEN UDivBits(a, b, i - 1, low, WAdd(q, Shl(W(1), i)))
                 ELSE UDivBits(a, b, i - 1, low, q)
         IN  Try(UMul(WAdd(q, Shl(W(1), i)), b))

UDiv(a, b) == UDivBits(a, b, 15, 0, UDivBits(a, b, 31, 16, W(0)))

\* &, | and ^ on the 16 bits of a half from bit i up, and on a u32.
RECURSIVE HalfLogic(_, _, _, _)
HalfLogic(LT, a, b, i) ==
    IF i = 16 THEN 0
    ELSE LET x == (a \div Pow2(i)) % 2
             y == (b \div Pow2(i)) % 2
             bit == CASE LT = "And" -> x * y
                      [] LT = "Or" -> x + y - x * y
                      [] LT = "Xor" -> (x + y) % 2
         IN  bit * Pow2(i) + HalfLogic(LT, a, b, i + 1)

Logic(LT, a, b) ==
    <<HalfLogic(LT, a[1], b[1], 0), HalfLogic(LT, a[2], b[2], 0)>>

\* ArithUnsign::execute on u32 operands: the result, and whether the
\* operation panics (division by zero in every build, overflow in a build
\* that checks it).
ArithUnsignResult(operation, a, b, chk) ==
    CASE operation = "Add" ->
            [val |-> WAdd(a, b), panic |-> chk /\ AddOverflows(a, b)]
      [] operation = "Sub" ->
            [val |-> WSub(a, b), panic |-> chk /\ WLt(a, b)]
      [] operation = "Mul" ->
            [val |-> UMul(a, b).val, panic |-> chk /\ UMul(a, b).ovf]
      [] operation = "Div" ->
            IF b = W(0) THEN [val |-> W(0), panic |-> TRUE]
            ELSE [val |-> UDiv(a, b), panic |-> FALSE]

\* ArithSign::execute on i32 operands held as words.
ArithSignResult(operation, a, b, chk) ==
    CASE operation = "Add" ->
            [val |-> WAdd(a, b),
             panic |-> chk /\ IsNeg(a) = IsNeg(b)
                           /\ IsNeg(WAdd(a, b)) # IsNeg(a)]
      [] operation = "Sub" ->
            [val |-> WSub(a, b),
             panic |-> chk /\ IsNeg(a) # IsNeg(b)
                           /\ IsNeg(WSub(a, b)) # IsNeg(a)]
      [] operation = "Mul" ->
            LET Product(m, negative) ==
                    [val |-> UMul(a, b).val,
                     panic |-> chk /\ (\/ m.ovf
                                       \/ (~negative /\ IsNeg(m.val))
                                       \/ (negative /\ IsNeg(m.val)
                                           /\ m.val # <<Half \div 2, 0>>))]
            IN  Product(UMul(Abs(a), Abs(b)), IsNeg(a) # IsNeg(b))
      [] operation = "Div" ->
            IF b = W(0) \/ (a = <<Half \div 2, 0>> /\ b = Neg(W(1)))
            THEN [val |-> W(0), panic |-> TRUE]
            ELSE [val |-> IF IsNeg(a) # IsNeg(b)
                          THEN Neg(UDiv(Abs(a), Abs(b)))
                          ELSE UDiv(Abs(a), Abs(b)),
                  panic |-> FALSE]

\* << and >> in AS::execute (u32) and LS::execute (i32): the shift panics
\* in a build that checks overflow when the amount is 32 or more, and
\* otherwise uses the amount's low five bits. direction TRUE takes the <<
\* branch.
ShiftResult(kind, direction, op, amount, chk) ==
    LET Shifted(k) ==
            IF direction THEN Shl(op, k)
            ELSE IF kind = "AS" THEN Shr(op, k) ELSE Sar(op, k)
    IN  [val |-> Shifted(amount[2] % 32),
         panic |-> chk /\ (amount[1] > 0 \/ amount[2] >= 32)]

\* Load::new, Store::new, Move::new, ArithUnsign::new, Comp::new, Jump::new,
\* RFI::new, Halt::new, Noop::new: the structs as the factory builds them.
LoadNew(mode) ==
    [kind |-> "Load", mem_addr_mode |-> mode, dest_reg |-> 0,
     mem_addr |-> W(0), value |-> W(0)]
StoreNew(mode) ==
    [kind |-> "Store", mem_addr_mode |-> mode, dest_addr |-> W(0),
     value |-> W(0)]
PushNew == [kind |-> "Push", addr |-> W(0), value |-> W(0)]
PopNew == [kind |-> "Pop", dest |-> 0, addr |-> W(0), value |-> W(0)]
MoveNew == [kind |-> "Move", dest |-> 0, value |-> W(0)]
ArithSignNew(mode, operation) ==
    [kind |-> "ArithSign", mem_addr_mode |-> mode, operation |-> operation,
     dest |-> 0, op1 |-> W(0), op2 |-> W(0), result |-> W(0)]
ThreeOpLogicNew(mode, LT) ==
    [kind |-> "ThreeOpLogic", mem_addr_mode |-> mode, OpType |-> LT,
     dest |-> 0, op1 |-> W(0), op2 |-> W(0), result |-> W(0)]
NotNew == [kind |-> "Not", dest |-> 0, op |-> W(0), result |-> W(0)]
ArithUnsignNew(mode, operation) ==
    [kind |-> "ArithUnsign", mem_addr_mode |-> mode, operation |-> operation,
     dest |-> 0, op1 |-> W(0), op2 |-> W(0), result |-> W(0)]
CompNew == [kind |-> "Comp", op1 |-> W(0), op2 |-> W(0)]
JumpNew(mode, is_sub) ==
    [kind |-> "Jump", mem_addr_mode |-> mode, is_sub |-> is_sub,
     condition |-> 0, addr |-> W(0)]
\* AS::new and LS::new. direction: the constructor's second argument.
ASNew(mode, d) ==
    [kind |-> "AS", mem_addr_mode |-> mode, direction |-> d, dest |-> 0,
     op |-> W(0), amount |-> W(0), result |-> W(0)]
LSNew(mode, d) ==
    [kind |-> "LS", mem_addr_mode |-> mode, direction |-> d, dest |-> 0,
     op |-> W(0), amount |-> W(0), result |-> W(0)]
RFINew == [kind |-> "RFI"]
HaltNew == [kind |-> "Halt"]
NoopNew == [kind |-> "Noop"]
FactoryOk(inst) == [ok |-> TRUE, inst |-> inst, halt |-> FALSE]
FactoryErr == [ok |-> FALSE, inst |-> None, halt |-> FALSE]

\* MemoryOp::match_val and the Memory arm of instruction_factory.
MemoryFactory(iop) ==
    CASE iop = 0 -> FactoryOk(LoadNew("RD"))
      [] iop = 1 -> FactoryOk(LoadNew("I"))
      [] iop = 2 -> FactoryOk(StoreNew("RD"))
      [] iop = 3 -> FactoryOk(StoreNew("I"))
      [] iop = 4 -> FactoryOk(PushNew)
      [] iop = 5 -> FactoryOk(PopNew)
      [] OTHER -> FactoryErr

\* Faulty variant of ControlFactory: a Halt is built but halt_encountered is
\* not set.
ControlFactoryNoHaltFlag(iop) ==
    CASE iop = 0 -> FactoryOk(HaltNew)
      [] iop = 1 -> FactoryOk(JumpNew("RD", FALSE))
      [] iop = 2 -> FactoryOk(JumpNew("I", FALSE))
      [] iop = 3 -> FactoryOk(JumpNew("RD", TRUE))
      [] iop = 4 -> FactoryOk(JumpNew("I", TRUE))
      [] iop = 5 -> FactoryOk(RFINew)
      [] iop = 6 -> FactoryOk(NoopNew)
      [] OTHER -> FactoryErr

\* ControlOp::match_val and the Control arm of instruction_factory. Building
\* a Halt sets halt_encountered.
ControlFactory(iop) ==
    CASE iop = 0 -> [ok |-> TRUE, inst |-> HaltNew, halt |-> TRUE]
      [] iop = 1 -> FactoryOk(JumpNew("RD", FALSE))
      [] iop = 2 -> FactoryOk(JumpNew("I", FALSE))
      [] iop = 3 -> FactoryOk(JumpNew("RD", TRUE))
      [] iop = 4 -> FactoryOk(JumpNew("I", TRUE))
      [] iop = 5 -> FactoryOk(RFINew)
      [] iop = 6 -> FactoryOk(NoopNew)
      [] OTHER -> FactoryErr

ArithOps == <<"Add", "Sub", "Mul", "Div">>

\* Faulty variant of ALUFactory: the unused opcode 18 builds a Comp.
ALUFactoryNoGap(iop) ==
    CASE iop \in 0..15 ->
            FactoryOk(IF iop % 4 < 2
                      THEN ArithUnsignNew(IF iop % 2 = 0 THEN "RD" ELSE "I",
                                          ArithOps[(iop \div 4) + 1])
                      ELSE ArithSignNew(IF iop % 2 = 0 THEN "RD" ELSE "I",
                                        ArithOps[(iop \div 4) + 1]))
      [] iop = 16 -> FactoryOk(MoveNew)
      [] iop \in 17..18 -> FactoryOk(CompNew)
      [] iop \in 19..22 ->
            FactoryOk(ASNew(IF iop % 2 = 1 THEN "RD" ELSE "I", iop >= 21))
      [] iop \in 23..26 ->
            FactoryOk(LSNew(IF iop % 2 = 1 THEN "RD" ELSE "I", iop >= 25))
      [] iop \in 27..32 ->
            FactoryOk(ThreeOpLogicNew(IF iop % 2 = 1 THEN "RD" ELSE "I",
                                      CASE iop \in 27..28 -> "And"
                                        [] iop \in 29..30 -> "Or"
                                        [] OTHER -> "Xor"))
      [] iop = 33 -> FactoryOk(NotNew)
      [] OTHER -> FactoryErr

\* ALUOp::match_val and the ALU arm of instruction_factory.
ALUFactory(iop) ==
    CASE iop \in 0..15 ->
            LET operation == ArithOps[(iop \div 4) + 1]
                mode == IF iop % 2 = 0 THEN "RD" ELSE "I"
            IN  IF iop % 4 < 2
                THEN FactoryOk(ArithUnsignNew(mode, operation))
                ELSE FactoryOk(ArithSignNew(mode, operation))
      [] iop = 16 -> FactoryOk(MoveNew)
      [] iop = 17 -> FactoryOk(CompNew)
      [] iop \in 19..22 ->
            FactoryOk(ASNew(IF iop % 2 = 1 THEN "RD" ELSE "I", iop >= 21))
      [] iop \in 23..26 ->
            FactoryOk(LSNew(IF iop % 2 = 1 THEN "RD" ELSE "I", iop >= 25))
      [] iop \in 27..32 ->
            FactoryOk(ThreeOpLogicNew(IF iop % 2 = 1 THEN "RD" ELSE "I",
                                      CASE iop \in 27..28 -> "And"
                                        [] iop \in 29..30 -> "Or"
                                        [] OTHER -> "Xor"))
      [] iop = 33 -> FactoryOk(NotNew)
      [] OTHER -> FactoryErr

\* ControlUnit::instruction_factory: type from bits 5..6 (InstructionT::
\* match_val: 0 Control, 1 ALU, 2 Memory, 3 Graphics), then the opcode.
instruction_factory(ibits) ==
    LET itype == GetBits(ibits, 5, 6)
    IN  CASE itype = 2 -> MemoryFactory(GetBits(ibits, 7, 9))
          [] itype = 0 -> ControlFactory(GetBits(ibits, 7, 9))
          [] itype = 1 -> ALUFactory(GetBits(ibits, 7, 12))
          [] OTHER -> FactoryErr

\* A stage's return: the instruction as the stage left it, the latency of
\* SimResult::Wait, and whether the stage panicked instead of returning.
StageRet(inst, wait, panic) == [inst |-> inst, wait |-> wait, panic |-> panic]

\* PC + 1 + field as Load and Store compute it in Immediate mode:
\* ((registers[PC] + 1) as i32 + get_bits(15..=31) as i32) as u32.
PCRelative(instruction, regs) ==
    LET next == WAdd(regs[PC], W(1))
        field == W(GetBits(instruction, 15, 31))
        sum == WAdd(next, field)
    IN  [val |-> sum,
         overflow |-> AddOverflows(regs[PC], W(1))
                      \/ (next[1] < Half \div 2 /\ sum[1] >= Half \div 2)]

\* Instruction::decode. chk: the build checks arithmetic overflow.
Decode(inst, instruction, regs, chk) ==
    CASE inst.kind = "Load" ->
            IF inst.mem_addr_mode = "RD"
            THEN StageRet([inst EXCEPT
                     !.dest_reg = GetBits(instruction, 10, 14),
                     !.mem_addr = regs[GetBits(instruction, 15, 19)]],
                   0, FALSE)
            ELSE LET rel == PCRelative(instruction, regs)
                 IN  StageRet([inst EXCEPT
                         !.dest_reg = GetBits(instruction, 10, 14),
                         !.mem_addr = rel.val], 0, chk /\ rel.overflow)
      [] inst.kind = "Store" ->
            IF inst.mem_addr_mode = "RD"
            THEN StageRet([inst EXCEPT
                     !.dest_addr = regs[GetBits(instruction, 10, 14)],
                     !.value = regs[GetBits(instruction, 15, 19)]],
                   0, FALSE)
            ELSE LET rel == PCRelative(instruction, regs)
                 IN  StageRet([inst EXCEPT
                         !.dest_addr = regs[GetBits(instruction, 10, 14)],
                         !.value = rel.val], 0, chk /\ rel.overflow)
      [] inst.kind = "Move" ->
            StageRet([inst EXCEPT
                !.value = regs[GetBits(instruction, 18, 22)],
                !.dest = GetBits(instruction, 13, 17)], 0, FALSE)
      [] inst.kind = "ArithUnsign" ->
            StageRet([inst EXCEPT
                !.dest = GetBits(instruction, 13, 17),
                !.op1 = regs[GetBits(instruction, 18, 22)],
                !.op2 = IF inst.mem_addr_mode = "RD"
                        THEN regs[GetBits(instruction, 23, 27)]
                        ELSE W(GetBits(instruction, 23, 31))], 0, FALSE)
      [] inst.kind = "Comp" ->
            StageRet([inst EXCEPT
                !.op1 = regs[GetBits(instruction, 13, 17)],
                !.op2 = regs[GetBits(instruction, 18, 22)]], 0, FALSE)
      [] inst.kind = "Jump" ->
            StageRet([inst EXCEPT
                !.condition = GetBits(instruction, 0, 4),
                !.addr = IF inst.mem_addr_mode = "RD"
                         THEN regs[GetBits(instruction, 10, 14)]
                         ELSE W(GetBits(instruction, 10, 31))], 0, FALSE)
      [] inst.kind = "Push" ->
            StageRet([inst EXCEPT
                !.addr = regs[GetBits(instruction, 11, 15)],
                !.value = WSub(regs[SP], W(1))], 0, chk /\ regs[SP] = W(0))
      [] inst.kind = "Pop" ->
            StageRet([inst EXCEPT
                !.dest = GetBits(instruction, 11, 15),
                !.addr = regs[SP]], 0, FALSE)
      [] inst.kind = "ArithSign" ->
            StageRet([inst EXCEPT
                !.dest = GetBits(instruction, 14, 18),
                !.op1 = regs[GetBits(instruction, 19, 23)],
                !.op2 = IF inst.mem_addr_mode = "RD"
                        THEN regs[GetBits(instruction, 24, 28)]
                        ELSE W(GetBits(instruction, 24, 31))], 0, FALSE)
      [] inst.kind = "ThreeOpLogic" ->
            StageRet([inst EXCEPT
                !.dest = GetBits(instruction, 13, 17),
                !.op1 = regs[GetBits(instruction, 18, 22)],
                !.op2 = IF inst.mem_addr_mode = "RD"
                        THEN regs[GetBits(instruction, 23, 27)]
                        ELSE W(GetBits(instruction, 23, 31))], 0, FALSE)
      [] inst.kind = "Not" ->
            StageRet([inst EXCEPT
                !.dest = GetBits(instruction, 13, 17),
                !.op = regs[GetBits(instruction, 18, 22)]], 0, FALSE)
      [] inst.kind \in {"AS", "LS"} ->
            StageRet([inst EXCEPT
                !.dest = GetBits(instruction, 13, 17),
                !.amount = IF inst.mem_addr_mode = "RD"
                           THEN regs[GetBits(instruction, 18, 22)]
                           ELSE W(GetBits(instruction, 18, 31)),
                !.op = regs[GetBits(instruction, 13, 17)]], 0, FALSE)
      [] inst.kind \in {"RFI", "Halt", "Noop"} -> StageRet(inst, 0, FALSE)

\* Faulty variant of Execute: Add loses the carry out of the low half.
ExecuteAddNoCarry(inst, chk) ==
    CASE inst.kind = "ArithUnsign" /\ inst.operation = "Add" ->
            StageRet([inst EXCEPT
                         !.result = <<(inst.op1[1] + inst.op2[1]) % Half,
                                      (inst.op1[2] + inst.op2[2]) % Half>>],
                     0, chk /\ AddOverflows(inst.op1, inst.op2))
      [] inst.kind = "ArithUnsign" /\ inst.operation = "Sub" ->
            StageRet([inst EXCEPT !.result = WSub(inst.op1, inst.op2)], 0,
                     chk /\ WLt(inst.op1, inst.op2))
      [] inst.kind \in {"Load", "Store", "Move", "Comp", "Jump", "RFI",
                        "Halt", "Noop"} -> StageRet(inst, 0, FALSE)

\* Instruction::execute
Execute(inst, chk) ==
    LET Done(r) == StageRet([inst EXCEPT !.result = r.val], 0, r.panic)
    IN  CASE inst.kind = "ArithUnsign" ->
                Done(ArithUnsignResult(inst.operation, inst.op1, inst.op2,
                                       chk))
          [] inst.kind = "ArithSign" ->
                Done(ArithSignResult(inst.operation, inst.op1, inst.op2,
                                     chk))
          [] inst.kind \in {"AS", "LS"} ->
                Done(ShiftResult(inst.kind, inst.direction, inst.op,
                                 inst.amount, chk))
          [] inst.kind = "ThreeOpLogic" ->
                Done([val |-> Logic(inst.OpType, inst.op1, inst.op2),
                      panic |-> FALSE])
          [] inst.kind \in {"Load", "Store", "Push", "Pop", "Move", "Comp",
                            "Not", "Jump", "RFI", "Halt", "Noop"} ->
                StageRet(inst, 0, FALSE)

\* Faulty variant of AccessMemory: a Store hands the memory its value as
\* the address and its address as the value.
AccessMemoryStoreSwapped(inst, ms) ==
    LET Loaded(g) ==
            [inst |-> [inst EXCEPT !.value = g.val], wait |-> g.wait,
             panic |-> g.panic, data |-> g.data, lines |-> g.lines,
             ops |-> <<<<"get", inst.mem_addr>>>>]
        Stored(r) ==
            [inst |-> inst, wait |-> r.wait, panic |-> r.panic,
             data |-> r.data, lines |-> r.lines,
             ops |-> <<<<"set", inst.value, inst.dest_addr>>>>]
    IN  CASE inst.kind = "Load" -> Loaded(MemGet(ms, inst.mem_addr))
          [] inst.kind = "Store" ->
                Stored(MemSet(ms, inst.value, inst.dest_addr))
          [] inst.kind \in {"Move", "ArithUnsign", "Comp", "Jump", "RFI",
                            "Halt", "Noop"} ->
                [inst |-> inst, wait |-> 0, panic |-> FALSE,
                 data |-> ms.data, lines |-> ms.lines, ops |-> <<>>]

\* Faulty variant of AccessMemory: a Pop does not call the memory.
AccessMemoryPopSkipped(inst, ms) ==
    LET Loaded(g) ==
            [inst |-> [inst EXCEPT !.value = g.val], wait |-> g.wait,
             panic |-> g.panic, data |-> g.data, lines |-> g.lines,
             ops |-> <<<<"get", inst.mem_addr>>>>]
        Stored(r) ==
            [inst |-> inst, wait |-> r.wait, panic |-> r.panic,
             data |-> r.data, lines |-> r.lines,
             ops |-> <<<<"set", inst.dest_addr, inst.value>>>>]
        Pushed(r) ==
            [inst |-> inst, wait |-> r.wait, panic |-> r.panic,
             data |-> r.data, lines |-> r.lines,
             ops |-> <<<<"set", inst.addr, inst.value>>>>]
    IN  CASE inst.kind = "Load" -> Loaded(MemGet(ms, inst.mem_addr))
          [] inst.kind = "Store" ->
                Stored(MemSet(ms, inst.dest_addr, inst.value))
          [] inst.kind = "Push" -> Pushed(MemSet(ms, inst.addr, inst.value))
          [] inst.kind \in {"Pop", "Move", "ArithUnsign", "ArithSign", "Comp", "AS",
                            "LS", "ThreeOpLogic", "Not", "Jump", "RFI",
                            "Halt", "Noop"} ->
                [inst |-> inst, wait |-> 0, panic |-> FALSE,
                 data |-> ms.data, lines |-> ms.lines, ops |-> <<>>]

\* Instruction::access_memory: the stage's return and the memory after it.
AccessMemory(inst, ms) ==
    LET Loaded(g) ==
            [inst |-> [inst EXCEPT !.value = g.val], wait |-> g.wait,
             panic |-> g.panic, data |-> g.data, lines |-> g.lines,
             ops |-> <<<<"get", inst.mem_addr>>>>]
        Stored(r) ==
            [inst |-> inst, wait |-> r.wait, panic |-> r.panic,
             data |-> r.data, lines |-> r.lines,
             ops |-> <<<<"set", inst.dest_addr, inst.value>>>>]
        Popped(g) ==
            [inst |-> [inst EXCEPT !.value = g.val], wait |-> g.wait,
             panic |-> g.panic, data |-> g.data, lines |-> g.lines,
             ops |-> <<<<"get", inst.addr>>>>]
        Pushed(r) ==
            [inst |-> inst, wait |-> r.wait, panic |-> r.panic,
             data |-> r.data, lines |-> r.lines,
             ops |-> <<<<"set", inst.addr, inst.value>>>>]
    IN  CASE inst.kind = "Load" -> Loaded(MemGet(ms, inst.mem_addr))
          [] inst.kind = "Store" ->
                Stored(MemSet(ms, inst.dest_addr, inst.value))
          [] inst.kind = "Push" -> Pushed(MemSet(ms, inst.addr, inst.value))
          [] inst.kind = "Pop" -> Popped(MemGet(ms, inst.addr))
          [] inst.kind \in {"Move", "ArithUnsign", "ArithSign", "Comp", "AS",
                            "LS", "ThreeOpLogic", "Not", "Jump", "RFI",
                            "Halt", "Noop"} ->
                [inst |-> inst, wait |-> 0, panic |-> FALSE,
                 data |-> ms.data, lines |-> ms.lines, ops |-> <<>>]

\* Faulty variant of JumpWriteBack: the condition is not looked at.
JumpWriteBackAlways(inst, regs) ==
    [(IF inst.is_sub THEN [regs EXCEPT ![LR] = W(PC + 1)] ELSE regs)
        EXCEPT ![PC] = inst.addr]

\* Faulty variant of JumpWriteBack: a taken jump leaves regs[PC] one below
\* the target.
JumpWriteBackOneBelow(inst, regs) ==
    IF inst.condition # 0
    THEN IF W(inst.condition) = regs[STS]
         THEN LET linked == IF inst.is_sub
                            THEN [regs EXCEPT ![LR] = W(PC + 1)]
                            ELSE regs
              IN  [linked EXCEPT ![PC] = WSub(inst.addr, W(1))]
         ELSE regs
    ELSE [regs EXCEPT ![PC] = WSub(inst.addr, W(1))]

\* Jump::write_back. `(PC + 1) as u32` is the register index constant PC
\* plus one, not the PC register's value.
JumpWriteBack(inst, regs) ==
    IF inst.condition # 0
    THEN IF W(inst.condition) = regs[STS]
         THEN LET linked == IF inst.is_sub
                            THEN [regs EXCEPT ![LR] = W(PC + 1)]
                            ELSE regs
              IN  [linked EXCEPT ![PC] = inst.addr]
         ELSE regs
    ELSE [regs EXCEPT ![PC] = inst.addr]

\* Faulty variant of CompWriteBack: the operands compared as i32.
CompWriteBackSigned(inst, regs) ==
    LET Signed(w) == IF w[1] >= Half \div 2 THEN w[1] - Half ELSE w[1]
        Less(a, b) == Signed(a) < Signed(b)
                      \/ (Signed(a) = Signed(b) /\ a[2] < b[2])
    IN  IF Less(inst.op1, inst.op2) THEN [regs EXCEPT ![STS] = W(CC_LT)]
        ELSE IF Less(inst.op2, inst.op1) THEN [regs EXCEPT ![STS] = W(CC_GT)]
        ELSE [regs EXCEPT ![STS] = W(CC_E)]

\* Comp::write_back
CompWriteBack(inst, regs) ==
    IF WLt(inst.op1, inst.op2) THEN [regs EXCEPT ![STS] = W(CC_LT)]
    ELSE IF WLt(inst.op2, inst.op1) THEN [regs EXCEPT ![STS] = W(CC_GT)]
    ELSE [regs EXCEPT ![STS] = W(CC_E)]

\* RFI::write_back
RFIWriteBack(regs) ==
    IF regs[STS] # W(IC_NOT_SET_INITIAL)
    THEN [[regs EXCEPT ![STS] = W(IC_NOT_SET)] EXCEPT ![PC] = regs[INTLR]]
    ELSE regs

\* Faulty variant of WriteBack: a Load writes the address it read from.
WriteBackLoadAddr(inst, regs) ==
    CASE inst.kind = "Load" -> [regs EXCEPT ![inst.dest_reg] = inst.mem_addr]
      [] inst.kind = "Move" -> [regs EXCEPT ![inst.dest] = inst.value]
      [] inst.kind = "ArithUnsign" -> [regs EXCEPT ![inst.dest] = inst.result]
      [] inst.kind = "Comp" -> CompWriteBack(inst, regs)
      [] inst.kind = "Jump" -> JumpWriteBack(inst, regs)
      [] inst.kind = "RFI" -> RFIWriteBack(regs)
      [] inst.kind \in {"Store", "Halt", "Noop"} -> regs

\* The -= 1 of Push::write_back and the += 1 of Pop::write_back panic in a
\* build that checks overflow when regs[SP] cannot take them.
WriteBackPanics(inst, regs, chk) ==
    CASE inst.kind = "Push" -> chk /\ regs[SP] = W(0)
      [] inst.kind = "Pop" ->
            chk /\ [regs EXCEPT ![inst.dest] = inst.value][SP]
                       = <<Half - 1, Half - 1>>
      [] OTHER -> FALSE

\* Instruction::write_back: the registers after it. Every write_back
\* returns Wait(0, ()).
WriteBack(inst, regs) ==
    CASE inst.kind = "Load" -> [regs EXCEPT ![inst.dest_reg] = inst.value]
      [] inst.kind = "Push" -> [regs EXCEPT ![SP] = WSub(regs[SP], W(1))]
      [] inst.kind = "Pop" ->
            LET popped == [regs EXCEPT ![inst.dest] = inst.value]
            IN  [popped EXCEPT ![SP] = WAdd(popped[SP], W(1))]
      [] inst.kind = "Move" -> [regs EXCEPT ![inst.dest] = inst.value]
      [] inst.kind \in {"ArithUnsign", "ArithSign", "AS", "LS",
                        "ThreeOpLogic"} ->
            [regs EXCEPT ![inst.dest] = inst.result]
      [] inst.kind = "Not" ->
            [regs EXCEPT ![inst.dest] =
                <<Half - 1 - inst.op[1], Half - 1 - inst.op[2]>>]
      [] inst.kind = "Comp" -> CompWriteBack(inst, regs)
      [] inst.kind = "Jump" -> JumpWriteBack(inst, regs)
      [] inst.kind = "RFI" -> RFIWriteBack(regs)
      [] inst.kind \in {"Store", "Halt", "Noop"} -> regs

\* ----------------------------------------------------------- control unit

\* An instruction as a stage slot holds it: the struct, and the number of the
\* step() call that fetched it (history only, no code reads it).
Fetched(inst, n) == inst @@ [id |-> n]

IsSome(slot) == slot.kind # "None"

\* Faulty variant of program_is_running: the access_mem slot is not looked at.
ProgramIsRunningNoAccessMem(pipeline, first, nopipe, fe, de, ex, am) ==
    IF pipeline
    THEN ~first \/ IsSome(de) \/ IsSome(fe) \/ IsSome(ex)
    ELSE ~first \/ IsSome(nopipe)

\* Faulty variant of program_is_running: only the fetch slot is looked at.
ProgramIsRunningFetchOnly(pipeline, first, nopipe, fe, de, ex, am) ==
    IF pipeline
    THEN ~first \/ IsSome(fe)
    ELSE ~first \/ IsSome(nopipe)

\* ControlUnit::program_is_running
\* (first: first_instruction_loaded; nopipe, fe, de, ex, am: the
\* no_pipeline, fetch, decode, execute and access_mem slots.)
program_is_running(pipeline, first, nopipe, fe, de, ex, am) ==
    IF pipeline
    THEN ~first \/ IsSome(de) \/ IsSome(fe) \/ IsSome(ex) \/ IsSome(am)
    ELSE ~first \/ IsSome(nopipe)

\* hist with the call of `stage` on the instruction in `slot` by step n added.
Called(h, slot, stage, n) ==
    IF IsSome(slot)
    THEN [h EXCEPT ![slot.id].calls = Append(@, <<stage, n>>)]
    ELSE h

\* hist with the instruction step n fetched from `bits` added.
Recorded(h, n, bits, calls) == h @@ (n :> [bits |-> bits, calls |-> calls])

\* The write back stage of step_pipeline: the registers after it.
WriteBackStage(access_mem_slot, regs) ==
    IF IsSome(access_mem_slot) THEN WriteBack(access_mem_slot, regs)
    ELSE regs

\* Faulty variant of AccessMemoryStage: once a Halt has been fetched the
\* instruction moves on without its access_memory.
AccessMemoryStageSkipAfterHalt(execute_slot, ms) ==
    IF IsSome(execute_slot) /\ ~halt_encountered
    THEN AccessMemory(execute_slot, ms)
    ELSE [inst |-> execute_slot, wait |-> 0, panic |-> FALSE,
          data |-> ms.data, lines |-> ms.lines, ops |-> <<>>]

\* Faulty variant of AccessMemoryStage: the memory the stage wrote is not
\* the one the rest of the step goes on with.
AccessMemoryStageNotHandedOn(execute_slot, ms) ==
    IF IsSome(execute_slot)
    THEN [AccessMemory(execute_slot, ms) EXCEPT !.data = ms.data,
                                                !.lines = ms.lines]
    ELSE [inst |-> None, wait |-> 0, panic |-> FALSE, data |-> ms.data,
          lines |-> ms.lines, ops |-> <<>>]

\* The access memory stage of step_pipeline: what it leaves in the
\* access_mem slot, and the memory after it.
AccessMemoryStage(execute_slot, ms) ==
    IF IsSome(execute_slot) THEN AccessMemory(execute_slot, ms)
    ELSE [inst |-> None, wait |-> 0, panic |-> FALSE, data |-> ms.data,
          lines |-> ms.lines, ops |-> <<>>]

\* Faulty variant of ExecuteStage: the execute slot is left empty.
ExecuteStageDrop(decode_slot, chk) == StageRet(None, 0, FALSE)

\* The execute stage of step_pipeline: what it leaves in the execute slot.
ExecuteStage(decode_slot, chk) ==
    IF IsSome(decode_slot) THEN Execute(decode_slot, chk)
    ELSE StageRet(None, 0, FALSE)

\* Faulty variant of DecodeStage: decode is handed the registers as they
\* were before the step's write back.
DecodeStageBeforeWriteBack(fetch_slot, bits, regs, chk) ==
    IF IsSome(fetch_slot) THEN Decode(fetch_slot, bits, registers, chk)
    ELSE StageRet(None, 0, FALSE)

\* The decode stage of step_pipeline: what it leaves in the decode slot.
DecodeStage(fetch_slot, bits, regs, chk) ==
    IF IsSome(fetch_slot) THEN Decode(fetch_slot, bits, regs, chk)
    ELSE StageRet(None, 0, FALSE)

\* Faulty variant of PipelineCycles: the fetch's wait is not counted.
PipelineCyclesNoFetchWait(cycles, stage_wait, fetch_wait) ==
    cycles + stage_wait + 1

\* cycle_count after a step_pipeline call that returns Ok: every stage's
\* wait, the fetch's wait, and 1.
PipelineCycles(cycles, stage_wait, fetch_wait) ==
    cycles + stage_wait + fetch_wait + 1

\* cycle_count after a step_no_pipeline call that returns Ok: the fetch's
\* wait, every stage's wait, and 5.
NoPipelineCycles(cycles, fetch_wait, stage_wait) ==
    cycles + fetch_wait + stage_wait + 5

\* Faulty variant of PipelineRun: regs[PC] is incremented also by a step
\* whose fetch fails.
PipelineRunSkipsFailedFetch(chk, n) ==
    LET Return(regs_wb, am, ex, de, do_fetch, got, icreate, fetched,
               fetch_err, stage_wait, fetch_wait, fetch_slot, h) ==
            [panic |-> am.panic \/ ex.panic \/ de.panic
                       \/ (~fetch_err /\ chk
                           /\ AddOverflows(regs_wb[PC], W(1))),
             err |-> fetch_err,
             registers |-> [regs_wb EXCEPT ![PC] = WAdd(regs_wb[PC], W(1))],
             cycle_count |-> IF fetch_err THEN cycle_count + stage_wait
                             ELSE PipelineCycles(cycle_count, stage_wait,
                                                 fetch_wait),
             halt_encountered |-> halt_encountered
                                  \/ (fetched /\ icreate.halt),
             fetch_instruction |-> fetch_slot,
             fetch_instruction_bits |-> IF fetched THEN got.val
                                        ELSE fetch_instruction_bits,
             decode_instruction |-> de.inst,
             execute_instruction |-> ex.inst,
             access_mem_instruction |-> am.inst,
             write_back_instruction |-> access_mem_instruction,
             data |-> IF do_fetch THEN got.data ELSE am.data,
             lines |-> IF do_fetch THEN got.lines ELSE am.lines,
             running |-> program_is_running(TRUE, TRUE,
                            no_pipeline_instruction, fetch_slot, de.inst,
                            ex.inst, am.inst),
             hist |-> IF fetched THEN Recorded(h, n, got.val, <<>>) ELSE h,
             last |-> [n |-> n, mode |-> "pipeline", early |-> FALSE,
                       cycles_before |-> cycle_count,
                       lat |-> stage_wait + fetch_wait,
                       fetch_read |-> do_fetch, fetch_addr |-> regs_wb[PC],
                       fetch_bits |-> IF do_fetch THEN got.val ELSE W(0),
                       wb_pc |-> regs_wb[PC], mem_ops |-> am.ops]]
        Created(regs_wb, am, ex, de, do_fetch, got, icreate, fetched) ==
            Return(regs_wb, am, ex, de, do_fetch, got, icreate, fetched,
                   do_fetch /\ ~icreate.ok,
                   am.wait + ex.wait + de.wait,
                   IF do_fetch THEN got.wait ELSE 0,
                   IF fetched THEN Fetched(icreate.inst, n) ELSE None,
                   Called(Called(Called(Called(hist,
                        access_mem_instruction, "write_back", n),
                        execute_instruction, "access_memory", n),
                        decode_instruction, "execute", n),
                        fetch_instruction, "decode", n))
        Read(regs_wb, am, ex, de, do_fetch, got, icreate) ==
            Created(regs_wb, am, ex, de, do_fetch, got, icreate,
                    do_fetch /\ icreate.ok)
        \* Fetch stage
        Fetch(regs_wb, am, ex, de, do_fetch, got) ==
            Read(regs_wb, am, ex, de, do_fetch, got,
                 instruction_factory(got.val))
        Stages(regs_wb, am, ex, de) ==
            Fetch(regs_wb, am, ex, de, ~halt_encountered,
                  MemGet([data |-> am.data, lines |-> am.lines],
                         regs_wb[PC]))
        WrittenBack(regs_wb) ==
            Stages(regs_wb,
                   AccessMemoryStage(execute_instruction, MemState),
                   ExecuteStage(decode_instruction, chk),
                   DecodeStage(fetch_instruction, fetch_instruction_bits,
                               regs_wb, chk))
    IN  WrittenBack(WriteBackStage(access_mem_instruction, registers))

\* One step_pipeline call, as the values it computes in order. chk: the build
\* checks arithmetic overflow. n: the number of this step() call.
PipelineRun(chk, n) ==
    LET Return(regs_wb, am, ex, de, do_fetch, got, icreate, fetched,
               fetch_err, stage_wait, fetch_wait, fetch_slot, h) ==
            [panic |-> am.panic \/ ex.panic \/ de.panic
                       \/ (~fetch_err /\ chk
                           /\ AddOverflows(regs_wb[PC], W(1))),
             err |-> fetch_err,
             registers |-> IF fetch_err THEN regs_wb
                           ELSE [regs_wb EXCEPT
                                    ![PC] = WAdd(regs_wb[PC], W(1))],
             cycle_count |-> IF fetch_err THEN cycle_count + stage_wait
                             ELSE PipelineCycles(cycle_count, stage_wait,
                                                 fetch_wait),
             halt_encountered |-> halt_encountered
                                  \/ (fetched /\ icreate.halt),
             fetch_instruction |-> fetch_slot,
             fetch_instruction_bits |-> IF fetched THEN got.val
                                        ELSE fetch_instruction_bits,
             decode_instruction |-> de.inst,
             execute_instruction |-> ex.inst,
             access_mem_instruction |-> am.inst,
             write_back_instruction |-> access_mem_instruction,
             data |-> IF do_fetch THEN got.data ELSE am.data,
             lines |-> IF do_fetch THEN got.lines ELSE am.lines,
             running |-> program_is_running(TRUE, TRUE,
                            no_pipeline_instruction, fetch_slot, de.inst,
                            ex.inst, am.inst),
             hist |-> IF fetched THEN Recorded(h, n, got.val, <<>>) ELSE h,
             last |-> [n |-> n, mode |-> "pipeline", early |-> FALSE,
                       cycles_before |-> cycle_count,
                       lat |-> stage_wait + fetch_wait,
                       fetch_read |-> do_fetch, fetch_addr |-> regs_wb[PC],
                       fetch_bits |-> IF do_fetch THEN got.val ELSE W(0),
                       wb_pc |-> regs_wb[PC], mem_ops |-> am.ops]]
        Created(regs_wb, am, ex, de, do_fetch, got, icreate, fetched) ==
            Return(regs_wb, am, ex, de, do_fetch, got, icreate, fetched,
                   do_fetch /\ ~icreate.ok,
                   am.wait + ex.wait + de.wait,
                   IF do_fetch THEN got.wait ELSE 0,
                   IF fetched THEN Fetched(icreate.inst, n) ELSE None,
                   Called(Called(Called(Called(hist,
                        access_mem_instruction, "write_back", n),
                        execute_instruction, "access_memory", n),
                        decode_instruction, "execute", n),
                        fetch_instruction, "decode", n))
        Read(regs_wb, am, ex, de, do_fetch, got, icreate) ==
            Created(regs_wb, am, ex, de, do_fetch, got, icreate,
                    do_fetch /\ icreate.ok)
        \* Fetch stage
        Fetch(regs_wb, am, ex, de, do_fetch, got) ==
            Read(regs_wb, am, ex, de, do_fetch, got,
                 instruction_factory(got.val))
        Stages(regs_wb, am, ex, de) ==
            Fetch(regs_wb, am, ex, de, ~halt_encountered,
                  MemGet([data |-> am.data, lines |-> am.lines],
                         regs_wb[PC]))
        WrittenBack(regs_wb) ==
            Stages(regs_wb,
                   AccessMemoryStage(execute_instruction, MemState),
                   ExecuteStage(decode_instruction, chk),
                   DecodeStage(fetch_instruction, fetch_instruction_bits,
                               regs_wb, chk))
    IN  WrittenBack(WriteBackStage(access_mem_instruction, registers))

\* What step() returns.
Ret(r) == IF r.err THEN "Err" ELSE IF r.running THEN "Ok(true)"
          ELSE "Ok(false)"

\* step() with pipeline_enabled: step_pipeline. A panic ends the process:
\* the state is kept as it was and no step follows.
StepPipeline ==
    /\ outcome = "running"
    /\ pipeline_enabled
    /\ \E chk \in BOOLEAN :
        LET r == PipelineRun(chk, stepno + 1)
        IN  IF r.panic
            THEN /\ outcome' = "panicked"
                 /\ UNCHANGED <<cu_vars, mem_vars, stepno, last, hist>>
            ELSE /\ outcome' = "running"
                 /\ stepno' = stepno + 1
                 /\ first_instruction_loaded' = TRUE
                 /\ registers' = r.registers
                 /\ cycle_count' = r.cycle_count
                 /\ halt_encountered' = r.halt_encountered
                 /\ fetch_instruction' = r.fetch_instruction
                 /\ fetch_instruction_bits' = r.fetch_instruction_bits
                 /\ decode_instruction' = r.decode_instruction
                 /\ execute_instruction' = r.execute_instruction
                 /\ access_mem_instruction' = r.access_mem_instruction
                 /\ write_back_instruction' = r.write_back_instruction
                 /\ dram_data' = r.data
                 /\ lines' = r.lines
                 /\ hist' = r.hist
                 /\ last' = r.last @@ [ret |-> Ret(r)]
                 /\ UNCHANGED <<pipeline_enabled, cache_enabled,
                                no_pipeline_instruction, dram_delay,
                                cache_delay, num_lines>>

\* One step_no_pipeline call past its halt_encountered check, as the values
\* it computes in order. decode is handed self.fetch_instruction_bits, which
\* only step_pipeline assigns, not the bits just fetched.
NoPipelineRun(chk, n) ==
    LET Return(got, ok, icreate, de, ex, am, regs_wb, stage_wait, slot) ==
            [panic |-> ok /\ (de.panic \/ ex.panic \/ am.panic
                              \/ (chk /\ AddOverflows(regs_wb[PC], W(1)))),
             err |-> ~ok,
             registers |-> IF ok THEN [regs_wb EXCEPT
                                          ![PC] = WAdd(regs_wb[PC], W(1))]
                           ELSE registers,
             cycle_count |-> IF ok
                             THEN NoPipelineCycles(cycle_count, got.wait,
                                                   stage_wait)
                             ELSE cycle_count + got.wait,
             halt_encountered |-> halt_encountered \/ (ok /\ icreate.halt),
             no_pipeline_instruction |-> slot,
             data |-> IF ok THEN am.data ELSE got.data,
             lines |-> IF ok THEN am.lines ELSE got.lines,
             running |-> program_is_running(FALSE, TRUE, slot,
                            fetch_instruction, decode_instruction,
                            execute_instruction, access_mem_instruction),
             hist |-> IF ok
                      THEN Recorded(hist, n, got.val,
                                    <<<<"decode", n>>, <<"execute", n>>,
                                      <<"access_memory", n>>,
                                      <<"write_back", n>>>>)
                      ELSE hist,
             last |-> [n |-> n, mode |-> "no_pipeline", early |-> FALSE,
                       cycles_before |-> cycle_count,
                       lat |-> got.wait + (IF ok THEN stage_wait ELSE 0),
                       fetch_read |-> TRUE,
                       fetch_addr |-> registers[PC], fetch_bits |-> got.val,
                       wb_pc |-> IF ok THEN regs_wb[PC] ELSE registers[PC],
                       mem_ops |-> IF ok THEN am.ops ELSE <<>>]]
        \* Write back stage
        Accessed(got, icreate, de, ex, am) ==
            Return(got, icreate.ok, icreate, de, ex, am,
                   WriteBack(am.inst, registers),
                   de.wait + ex.wait + am.wait,
                   IF icreate.ok THEN Fetched(am.inst, n)
                   ELSE no_pipeline_instruction)
        \* Access memory stage
        Executed(got, icreate, de, ex) ==
            Accessed(got, icreate, de, ex,
                     AccessMemory(ex.inst,
                                  [data |-> got.data, lines |-> got.lines]))
        \* Execute stage
        Decoded(got, icreate, de) ==
            Executed(got, icreate, de, Execute(de.inst, chk))
        \* Decode stage
        Created(got, icreate) ==
            Decoded(got, icreate,
                    Decode(icreate.inst, fetch_instruction_bits, registers,
                           chk))
        \* Fetch instruction
        Read(got) == Created(got, instruction_factory(got.val))
    IN  Read(MemGet(MemState, registers[PC]))

\* step() without pipeline_enabled: step_no_pipeline.
StepNoPipeline ==
    /\ outcome = "running"
    /\ ~pipeline_enabled
    /\ IF halt_encountered
       THEN /\ stepno' = stepno + 1
            /\ first_instruction_loaded' = TRUE
            /\ last' = [n |-> stepno + 1, mode |-> "no_pipeline",
                        early |-> TRUE, cycles_before |-> cycle_count,
                        lat |-> 0, fetch_read |-> FALSE,
                        fetch_addr |-> registers[PC], fetch_bits |-> W(0),
                        wb_pc |-> registers[PC], mem_ops |-> <<>>,
                        ret |-> "Ok(false)"]
            /\ UNCHANGED <<pipeline_enabled, cache_enabled, cycle_count,
                           registers, halt_encountered,
                           no_pipeline_instruction, fetch_instruction,
                           fetch_instruction_bits, decode_instruction,
                           execute_instruction, access_mem_instruction,
                           write_back_instruction, mem_vars, outcome, hist>>
       ELSE \E chk \in BOOLEAN :
            LET r == NoPipelineRun(chk, stepno + 1)
            IN  IF r.panic
                THEN /\ outcome' = "panicked"
                     /\ UNCHANGED <<cu_vars, mem_vars, stepno, last, hist>>
                ELSE /\ outcome' = "running"
                     /\ stepno' = stepno + 1
                     /\ first_instruction_loaded' = TRUE
                     /\ registers' = r.registers
                     /\ cycle_count' = r.cycle_count
                     /\ halt_encountered' = r.halt_encountered
                     /\ no_pipeline_instruction' = r.no_pipeline_instruction
                     /\ dram_data' = r.data
                     /\ lines' = r.lines
                     /\ hist' = r.hist
                     /\ last' = r.last @@ [ret |-> Ret(r)]
                     /\ UNCHANGED <<pipeline_enabled, cache_enabled,
                                    fetch_instruction, fetch_instruction_bits,
                                    decode_instruction, execute_instruction,
                                    access_mem_instruction,
                                    write_back_instruction, dram_delay,
                                    cache_delay, num_lines>>

\* ------------------------------------------------------------- the programs

\* An instruction word from its fields: the sum of value * 2^shift over the
\* <<shift, value>> pairs (all the words below are under 2^31).
RECURSIVE FieldSum(_)
FieldSum(fields) ==
    IF fields = <<>> THEN 0
    ELSE Head(fields)[2] * Pow2(Head(fields)[1]) + FieldSum(Tail(fields))

Enc(fields) == W(FieldSum(fields))

\* InstructionT::value
T_CONTROL == 0
T_ALU == 1
T_MEMORY == 2
T_GRAPHICS == 3

\* The address the modelled jumps aim at.
JumpTarget == 100

\* Halt, with bits set outside the type and opcode fields (the all-zero Halt
\* is what every unwritten address reads as).
HaltWord == Enc(<<<<0, 3>>, <<5, T_CONTROL>>, <<7, 0>>, <<10, 5>>>>)
NoopWord == Enc(<<<<5, T_CONTROL>>, <<7, 6>>>>)
\* ADD unsigned immediate, dest = R2, op1 = R10, imm = 2
AddWord == Enc(<<<<5, T_ALU>>, <<7, 1>>, <<13, 2>>, <<18, 10>>, <<23, 2>>>>)
\* COMP R10, R17
CompWord == Enc(<<<<5, T_ALU>>, <<7, 17>>, <<13, 10>>, <<18, 17>>>>)
\* Jump immediate, cond = LT, to JumpTarget
JmpLTWord == Enc(<<<<0, CC_LT>>, <<5, T_CONTROL>>, <<7, 2>>,
                   <<10, JumpTarget>>>>)
\* Jump to subroutine immediate, unconditional, to JumpTarget
JmpSWord == Enc(<<<<0, CC_NS>>, <<5, T_CONTROL>>, <<7, 4>>,
                  <<10, JumpTarget>>>>)
\* Jump to subroutine immediate, cond = LT, to JumpTarget
JmpSLTWord == Enc(<<<<0, CC_LT>>, <<5, T_CONTROL>>, <<7, 4>>,
                    <<10, JumpTarget>>>>)
\* Load register direct, dest = R20, address in R6
LoadWord == Enc(<<<<5, T_MEMORY>>, <<7, 0>>, <<10, 20>>, <<15, 6>>>>)
\* Load immediate, dest = R21, offset 0
LoadIWord == Enc(<<<<5, T_MEMORY>>, <<7, 1>>, <<10, 21>>>>)
\* Store register direct, address in R8, value in R5
StoreWord == Enc(<<<<5, T_MEMORY>>, <<7, 2>>, <<10, 8>>, <<15, 5>>>>)
\* A Graphics-type word: the factory refuses it.
BadWord == Enc(<<<<5, T_GRAPHICS>>>>)

ProgramWords == {HaltWord, NoopWord, AddWord, CompWord, JmpLTWord, JmpSWord,
                 JmpSLTWord, LoadWord, LoadIWord, StoreWord, BadWord}

\* The longest program image (in words) loaded before the run.
MaxProg == 2

\* The most step() calls of a run.
MaxSteps == 8

\* The latencies the memories are built with: the DRAM's is 0 or DramDelay.
DramDelay == 3
CacheDelay == 1

\* The cache has 2^IdxBits lines.
IdxBits == 1

\* Registers a front end presets before the run (the field is public): the
\* fresh register file, or one with operands for the programs' instructions.
PresetRegs ==
    [i \in 0..(REGISTERS_SIZE - 1) |->
        CASE i = 10 -> W(12) [] i = 17 -> W(22) [] i = 5 -> W(346)
          [] i = 8 -> W(2) [] OTHER -> W(0)]

\* ControlUnit::new over a DRAM holding a loaded image and a new DMCache, and
\* the front end's choice of mode flags and registers before the first step.
Init ==
    /\ pipeline_enabled \in BOOLEAN
    /\ cache_enabled \in BOOLEAN
    /\ cycle_count = 0
    /\ registers \in {RegistersNew, PresetRegs}
    /\ first_instruction_loaded = FALSE
    /\ halt_encountered = FALSE
    /\ no_pipeline_instruction = None
    /\ fetch_instruction = None
    /\ fetch_instruction_bits = W(0)
    /\ decode_instruction = None
    /\ execute_instruction = None
    /\ access_mem_instruction = None
    /\ write_back_instruction = None
    /\ dram_delay \in {0, DramDelay}
    /\ \E len \in 1..MaxProg :
          dram_data \in [{W(k) : k \in 0..(len - 1)} -> ProgramWords]
    /\ cache_delay = CacheDelay
    /\ num_lines = Pow2(IdxBits)
    /\ lines = [i \in 0..(num_lines - 1) |-> DMCacheLineNew]
    /\ outcome = "running"
    /\ stepno = 0
    /\ last = [n |-> 0, mode |-> "none", early |-> FALSE,
               cycles_before |-> 0, lat |-> 0,
               fetch_read |-> FALSE, fetch_addr |-> W(0),
               fetch_bits |-> W(0), wb_pc |-> W(0), mem_ops |-> <<>>,
               ret |-> "none"]
    /\ hist = <<>>

Next ==
    \/ stepno < MaxSteps /\ StepPipeline
    \/ stepno < MaxSteps /\ StepNoPipeline

Spec == Init /\ [][Next]_vars

\* --------------------------------------------------------------- properties

Min(a, b) == IF a < b THEN a ELSE b

\* The five stage slots of the pipeline.
Slots == [fetch |-> fetch_instruction, decode |-> decode_instruction,
          execute |-> execute_instruction,
          access_mem |-> access_mem_instruction,
          write_back |-> write_back_instruction]

\* The slots that hold the instruction fetched by step k.
SlotsHolding(k) == {s \in DOMAIN Slots : IsSome(Slots[s]) /\ Slots[s].id = k}

\* The slot an instruction is in `age` steps after the step that fetched it.
SlotAtAge(age) ==
    CASE age = 0 -> {"fetch"} [] age = 1 -> {"decode"}
      [] age = 2 -> {"execute"} [] age = 3 -> {"access_mem"}
      [] age = 4 -> {"write_back"} [] OTHER -> {}

\* The stage calls of an instruction fetched by pipelined step k.
StageCalls(k) == <<<<"decode", k + 1>>, <<"execute", k + 2>>,
                   <<"access_memory", k + 3>>, <<"write_back", k + 4>>>>

\* A word the factory builds a Halt from.
IsHaltWord(bits) == GetBits(bits, 5, 6) = 0 /\ GetBits(bits, 7, 9) = 0

\* The steps that fetched a Halt.
HaltIds == {k \in DOMAIN hist : IsHaltWord(hist[k].bits)}

\* The instructions whose write_back ran in the step just returned.
Committed == {k \in DOMAIN hist :
                 /\ hist[k].calls # <<>>
                 /\ hist[k].calls[Len(hist[k].calls)]
                        = <<"write_back", stepno>>}

\* A jump-immediate word, its condition field and its target.
IsJumpIWord(bits) ==
    GetBits(bits, 5, 6) = T_CONTROL /\ GetBits(bits, 7, 9) \in {2, 4}
CondOf(bits) == GetBits(bits, 0, 4)
TargetOf(bits) == W(GetBits(bits, 10, 31))

ReturnedOk == last.ret \in {"Ok(true)", "Ok(false)"}

\* C1: in pipelined mode the instruction fetched by step k has decode called
\* in step k+1, execute in k+2, access_memory in k+3 and write_back in k+4,
\* each once and in that order; after every step it is in exactly the one slot
\* of its age, and from step k+5 on it is in no slot. Every occupied slot
\* holds a fetched instruction.
C1_StageOrder ==
    pipeline_enabled =>
        /\ \A k \in DOMAIN hist :
              /\ hist[k].calls
                    = SubSeq(StageCalls(k), 1, Min(stepno - k, 4))
              /\ SlotsHolding(k) = SlotAtAge(stepno - k)
        /\ \A s \in DOMAIN Slots :
              IsSome(Slots[s]) => Slots[s].id \in DOMAIN hist

\* A store fetched five steps ago, behind a slow DRAM, has had its four stage
\* calls and has left the pipeline.
C1_Witness ==
    /\ pipeline_enabled
    /\ dram_delay > 0
    /\ \E k \in DOMAIN hist :
          /\ stepno = k + 5
          /\ hist[k].bits = StoreWord
          /\ hist[k].calls = StageCalls(k)
          /\ SlotsHolding(k) = {}

\* C2: in pipelined mode the step that fetches a Halt and the three steps
\* after it return Ok(true), and the fourth step after it returns Ok(false).
C2_HaltDrain ==
    pipeline_enabled =>
        \A h \in HaltIds :
            /\ stepno - h \in 0..3 => last.ret = "Ok(true)"
            /\ stepno - h = 4 => last.ret = "Ok(false)"

\* The fourth step after a Halt that followed two other instructions, behind
\* a slow DRAM, has returned Ok(false).
C2_Witness ==
    /\ pipeline_enabled
    /\ dram_delay > 0
    /\ \E h \in HaltIds : h = 3 /\ stepno = h + 4 /\ last.ret = "Ok(false)"

\* The Store, Load and Load-immediate instructions fetched so far.
MemoryIds == {k \in DOMAIN hist :
                 hist[k].bits \in {StoreWord, LoadWord, LoadIWord}}

\* The last instruction fetched that accesses memory is a Store.
LastAccessIsStore ==
    /\ MemoryIds # {}
    /\ \E k \in MemoryIds :
          /\ hist[k].bits = StoreWord
          /\ \A j \in MemoryIds : j <= k

C4_HaltSticky ==
    \A h \in HaltIds :
        /\ halt_encountered
        /\ pipeline_enabled =>
              /\ \A k \in DOMAIN hist : k <= h
              /\ stepno > h => ~last.fetch_read /\ fetch_instruction = None

\* Two pipelined steps after a Halt word with bits set outside its type and
\* opcode fields was fetched.
C4_Witness ==
    /\ pipeline_enabled
    /\ halt_encountered
    /\ \E h \in HaltIds :
          hist[h].bits = HaltWord /\ stepno = h + 2 /\ ~last.fetch_read

\* C5: in non-pipelined mode the step that executes a Halt returns Ok(false),
\* and so does every later step, and program_is_running() is false from then
\* on.
C5_NoPipelineHaltStops ==
    ~pipeline_enabled =>
        \A h \in HaltIds :
            /\ last.ret = "Ok(false)"
            /\ ~program_is_running(FALSE, first_instruction_loaded,
                                   no_pipeline_instruction,
                                   fetch_instruction, decode_instruction,
                                   execute_instruction,
                                   access_mem_instruction)

\* C6: a non-pipelined step that returns Ok decodes the word it fetched: for
\* the Add (dest R2, op1 R10, immediate 2) R2 is R10 + 2 afterwards, for the
\* Load immediate (dest R21, offset 0) R21 is the memory word at PC + 1, and
\* PC is one more than the address fetched from.
C6_NoPipelineDecodesFetched ==
    (~pipeline_enabled /\ ~last.early /\ ReturnedOk) =>
        /\ last.fetch_bits = AddWord =>
              /\ registers[2] = WAdd(registers[10], W(2))
              /\ registers[PC] = WAdd(last.fetch_addr, W(1))
        /\ last.fetch_bits = LoadIWord =>
              /\ registers[21]
                    = MemGet(MemState, WAdd(last.fetch_addr, W(1))).val
              /\ registers[PC] = WAdd(last.fetch_addr, W(1))

\* C7: a step that returns Ok after running a cycle has added to cycle_count
\* its base (1 pipelined, 5 non-pipelined) and the latencies its fetch and
\* stage calls returned, and leaves PC one more than write-back left it.
C7_CycleAccounting ==
    (ReturnedOk /\ ~last.early) =>
        /\ cycle_count
              = last.cycles_before
                + (IF last.mode = "pipeline" THEN 1 ELSE 5) + last.lat
        /\ registers[PC] = WAdd(last.wb_pc, W(1))

\* A pipelined step whose access memory stage missed the cache and waited
\* for the DRAM: the latency is in the count.
C7_Witness ==
    /\ pipeline_enabled /\ cache_enabled /\ dram_delay > 0
    /\ ReturnedOk
    /\ last.mem_ops # <<>>
    /\ last.lat = CacheDelay + DramDelay
    /\ cycle_count = last.cycles_before + 1 + last.lat

\* C8: when the step in which a taken jump to A writes back returns, PC is A.
C8_JumpLandsOnTarget ==
    (ReturnedOk /\ ~last.early) =>
        \A k \in Committed :
            (/\ IsJumpIWord(hist[k].bits)
             /\ \/ CondOf(hist[k].bits) = 0
                \/ W(CondOf(hist[k].bits)) = registers[STS])
            => registers[PC] = TargetOf(hist[k].bits)

\* The jump whose write_back the next pipelined step runs, if any.
JumpAtWriteBack ==
    /\ pipeline_enabled
    /\ stepno' = stepno + 1
    /\ access_mem_instruction.kind = "Jump"

JumpTaken ==
    \/ access_mem_instruction.condition = 0
    \/ W(access_mem_instruction.condition) = registers[STS]

\* C9: the write_back of a jump sets PC to the decoded target when the
\* decoded condition is 0 or equals STS, and then changes no register but PC
\* and LR; otherwise it changes no register. (The step increments PC after
\* write-back; last.wb_pc is PC as write-back left it.)
C9_JumpWriteBack ==
    [][JumpAtWriteBack =>
          /\ access_mem_instruction.condition
                = CondOf(hist[access_mem_instruction.id].bits)
          /\ JumpTaken =>
                /\ last'.wb_pc = access_mem_instruction.addr
                /\ \A i \in 0..(REGISTERS_SIZE - 1) :
                      i \notin {PC, LR} => registers'[i] = registers[i]
          /\ ~JumpTaken =>
                /\ last'.wb_pc = registers[PC]
                /\ \A i \in 0..(REGISTERS_SIZE - 1) :
                      i # PC => registers'[i] = registers[i]]_vars

\* A conditional jump was just written back taken, and another not taken.
C9_Witness ==
    /\ pipeline_enabled
    /\ last.n = stepno
    /\ write_back_instruction.kind = "Jump"
    /\ write_back_instruction.condition = CC_LT
    /\ registers[STS] = W(CC_LT)
    /\ last.wb_pc = W(JumpTarget)

\* C10: the write_back of a taken subroutine jump, the unconditional one
\* included, sets LR to the PC register's value at write-back plus 1.
C10_LinkRegister ==
    [][(JumpAtWriteBack /\ access_mem_instruction.is_sub /\ JumpTaken)
          => registers'[LR] = WAdd(registers[PC], W(1))]_vars

\* ------------------------------------------------- the memories on their own

\* The memory a front end or a test drives directly: a DRAM, or a DMCache
\* over it (cache_enabled says which), through get and set. The control
\* unit's fields keep the values ControlUnit::new gives them.

\* The addresses and words the operations are called with. With 2 lines the
\* addresses have tags 0, 1 and 2; with 4 lines, 0 and 1.
MemAddrs == 0..4
MemWords == {W(7), W(9)}

\* The most get and set calls of a run.
MaxMemOps == 3

\* A DRAM image loaded before the run.
MemImage == (W(0) :> W(5)) @@ (W(1) :> W(6))

\* DRAM::new: an empty map.
DRAMNew == [a \in {} |-> W(0)]

\* The addresses that share a's cache line (none without the cache).
SameLine(a) ==
    IF cache_enabled
    THEN {b \in MemAddrs : b # a /\ b % num_lines = a % num_lines}
    ELSE {}

\* The words set so far and not since followed by an access to another
\* address of the same line: hist without the addresses sharing a's line.
Undisturbed(a) ==
    [b \in (DOMAIN hist) \ SameLine(a) |-> hist[b]]

InitMem ==
    /\ pipeline_enabled = TRUE
    /\ cache_enabled \in BOOLEAN
    /\ cycle_count = 0
    /\ registers = RegistersNew
    /\ first_instruction_loaded = FALSE
    /\ halt_encountered = FALSE
    /\ no_pipeline_instruction = None
    /\ fetch_instruction = None
    /\ fetch_instruction_bits = W(0)
    /\ decode_instruction = None
    /\ execute_instruction = None
    /\ access_mem_instruction = None
    /\ write_back_instruction = None
    /\ dram_delay = DramDelay
    /\ dram_data \in {DRAMNew, MemImage}
    /\ cache_delay = CacheDelay
    /\ num_lines = Pow2(IdxBits)
    /\ lines = [i \in 0..(num_lines - 1) |-> DMCacheLineNew]
    /\ outcome = "running"
    /\ stepno = 0
    /\ last = [op |-> "none", addr |-> 0, val |-> W(0), wait |-> 0,
               base_ops |-> <<>>]
    /\ hist = <<>>

\* memory.get(address) on the DRAM or on the cache.
MemGetOp(a) ==
    /\ outcome = "running"
    /\ stepno < MaxMemOps
    /\ LET g == MemGet(MemState, W(a))
       IN  /\ dram_data' = g.data
           /\ lines' = g.lines
           /\ last' = [op |-> "get", addr |-> a, val |-> g.val,
                       wait |-> g.wait, base_ops |-> g.base_ops]
    /\ hist' = Undisturbed(a)
    /\ stepno' = stepno + 1
    /\ UNCHANGED <<cu_vars, dram_delay, cache_delay, num_lines, outcome>>

\* memory.set(address, data) on the DRAM or on the cache. A panic (set_bits
\* in get_idx_address) ends the process with nothing written.
MemSetOp(a, v) ==
    /\ outcome = "running"
    /\ stepno < MaxMemOps
    /\ LET r == MemSet(MemState, W(a), v)
       IN  IF r.panic
           THEN /\ outcome' = "panicked"
                /\ UNCHANGED <<dram_data, lines, last, hist, stepno>>
           ELSE /\ outcome' = "running"
                /\ dram_data' = r.data
                /\ lines' = r.lines
                /\ last' = [op |-> "set", addr |-> a, val |-> v,
                            wait |-> r.wait, base_ops |-> r.base_ops]
                /\ hist' = (a :> v) @@ Undisturbed(a)
                /\ stepno' = stepno + 1
    /\ UNCHANGED <<cu_vars, dram_delay, cache_delay, num_lines>>

NextMem ==
    \/ \E a \in MemAddrs : MemGetOp(a)
    \/ \E a \in MemAddrs, v \in MemWords : MemSetOp(a, v)

SpecMem == InitMem /\ [][NextMem]_vars


\* --------------------------------------------- properties of the memories
\* C11: with the cache in use, a get of an address whose last set has not
\* been followed by an access to another address of the same line returns
\* the word of that set, reports exactly the cache delay, and makes no call
\* on the base memory.
C11_SetThenGet ==
    (cache_enabled /\ last.op = "get" /\ last.addr \in DOMAIN hist)
        => /\ last.val = hist[last.addr]
           /\ last.wait = cache_delay
           /\ last.base_ops = <<>>

C11_Witness ==
    /\ cache_enabled /\ stepno = MaxMemOps
    /\ last.op = "get" /\ last.addr \in DOMAIN hist
    /\ last.val = W(9)
    /\ \E b \in DOMAIN hist : b # last.addr

\* C12: a cache get of address a whose line (a mod N) is valid and holds
\* the tag a div N returns the line's word, reports exactly the cache delay,
\* makes no call on the base memory and changes no line.
C12_GetHit ==
    [][\A a \in MemAddrs :
          (/\ cache_enabled /\ MemGetOp(a)
           /\ lines[a % num_lines].valid
           /\ lines[a % num_lines].tag = W(a \div num_lines))
              => /\ last'.val = lines[a % num_lines].data
                 /\ last'.wait = cache_delay
                 /\ last'.base_ops = <<>>
                 /\ lines' = lines
                 /\ dram_data' = dram_data]_vars

C12_Witness ==
    /\ cache_enabled /\ last.op = "get" /\ last.wait = cache_delay
    /\ last.val = W(5)
    /\ lines[last.addr % num_lines].valid
    /\ ~lines[last.addr % num_lines].dirty

\* C13: a cache set of a2 made right after a cache set of a1 # a2 with the
\* same line index completes, writes the word of the first set to the base
\* memory at exactly a1 and nowhere else, and the DRAM then holds that word
\* at a1.
C13_SetEvictsToOwnAddress ==
    [][\A a2 \in MemAddrs, v2 \in MemWords :
          (/\ cache_enabled /\ last.op = "set"
           /\ a2 \in SameLine(last.addr)
           /\ MemSetOp(a2, v2))
              => /\ outcome' = "running"
                 /\ last'.base_ops = <<<<"set", W(last.addr), last.val>>>>
                 /\ W(last.addr) \in DOMAIN dram_data'
                 /\ dram_data'[W(last.addr)] = last.val]_vars

\* C14: a cache get of a that misses on a valid, dirty line of another tag
\* writes the line's word to the base memory at the line's own address
\* (tag * N + index) and not at a, returns the word the base memory held at
\* a before the call, and leaves the base memory's word at a as it was.
C14_GetEvictsToOwnAddress ==
    [][\A a \in MemAddrs :
          LET idx  == a % num_lines
              line == lines[idx]
              own  == W(line.tag[2] * num_lines + idx)
              old  == IF W(a) \in DOMAIN dram_data THEN dram_data[W(a)]
                      ELSE W(0)
          IN  (/\ cache_enabled /\ MemGetOp(a)
               /\ line.valid /\ line.dirty /\ line.tag # W(a \div num_lines))
                  => /\ last'.base_ops = <<<<"set", own, line.data>>,
                                           <<"get", W(a)>>>>
                     /\ last'.val = old
                     /\ dram_data'[W(a)] = old]_vars

\* C15: for every address a the line index is a mod N, the tag is a div N,
\* and get_idx_address rebuilds a from them.
C15_AddressRoundTrip ==
    \A a \in MemAddrs :
        /\ get_address_index(W(a)) = a % num_lines
        /\ get_address_index(W(a)) < num_lines
        /\ get_address_tag(W(a)) = W(a \div num_lines)
        /\ ~get_idx_address(a % num_lines, W(a \div num_lines)).panic
        /\ get_idx_address(a % num_lines, W(a \div num_lines)).addr = W(a)

\* C16: a cache set completes without reading the base memory; it writes
\* the base memory once when the resident line is valid, dirty and of
\* another tag, and not at all otherwise, in which case the base memory is
\* unchanged; the addressed line ends valid and dirty with the new tag and
\* word.
C16_SetFrame ==
    [][\A a \in MemAddrs, v \in MemWords :
          LET idx   == a % num_lines
              line  == lines[idx]
              evict == line.valid /\ line.dirty
                       /\ line.tag # W(a \div num_lines)
          IN  (cache_enabled /\ MemSetOp(a, v))
                  => /\ outcome' = "running"
                     /\ \A i \in 1..Len(last'.base_ops) :
                            last'.base_ops[i][1] = "set"
                     /\ Len(last'.base_ops) = (IF evict THEN 1 ELSE 0)
                     /\ ~evict => dram_data' = dram_data
                     /\ lines'[idx] = [tag |-> W(a \div num_lines),
                                       data |-> v,
                                       valid |-> TRUE, dirty |-> TRUE]]_vars

\* C17: a new cache has every line invalid, and a cache get of a whose line
\* is invalid reads the base memory at a, returns the base memory's word
\* (0 for an absent address) and changes no word the base memory holds,
\* whatever tag the invalid line stores.
C17_InvalidLineMisses ==
    /\ \A i \in DOMAIN lines : ~lines[i].valid
    /\ [][\A a \in MemAddrs :
             (cache_enabled /\ MemGetOp(a) /\ ~lines[a % num_lines].valid)
                 => /\ last'.base_ops = <<<<"get", W(a)>>>>
                    /\ last'.val = (IF W(a) \in DOMAIN dram_data
                                    THEN dram_data[W(a)] ELSE W(0))
                    /\ \A b \in DOMAIN dram_data :
                           dram_data'[b] = dram_data[b]]_vars

C17_Witness ==
    /\ cache_enabled /\ stepno = 1
    /\ last.op = "get" /\ last.addr = 0 /\ last.val = W(5)
    /\ last.base_ops = <<<<"get", W(0)>>>>

\* C18: on the DRAM alone, a get of an address returns the word of the
\* last set of that address whatever gets and sets of other addresses came
\* between, and every get and set reports exactly the configured delay.
C18_DRAMReadsLastSet ==
    ~cache_enabled
        => /\ last.op \in {"get", "set"} => last.wait = dram_delay
           /\ (last.op = "get" /\ last.addr \in DOMAIN hist)
                  => last.val = hist[last.addr]
           /\ \A a \in DOMAIN hist :
                  W(a) \in DOMAIN dram_data /\ dram_data[W(a)] = hist[a]

C18_Witness ==
    /\ ~cache_enabled /\ stepno = MaxMemOps
    /\ last.op = "get" /\ last.addr \in DOMAIN hist
    /\ last.val = W(7)
    /\ \E b \in DOMAIN hist : b # last.addr /\ hist[b] = W(9)

\* C19: on the DRAM alone, a get of an absent address returns 0 and leaves
\* the address present with the word 0 in the map inspect() shows; a get
\* changes the word of no present address; a get that follows a get of the
\* same address returns the same word.
C19_DRAMGetOfAbsent ==
    [][\A a \in MemAddrs :
          (~cache_enabled /\ MemGetOp(a))
              => /\ W(a) \notin DOMAIN dram_data
                     => /\ last'.val = W(0)
                        /\ W(a) \in DOMAIN inspect'
                        /\ inspect'[W(a)] = W(0)
                 /\ \A b \in DOMAIN dram_data :
                        b \in DOMAIN inspect' /\ inspect'[b] = dram_data[b]
                 /\ (last.op = "get" /\ last.addr = a)
                        => last'.val = last.val]_vars

C19_Witness ==
    /\ ~cache_enabled /\ stepno = 2
    /\ last.op = "get" /\ last.addr = 4 /\ last.val = W(0)
    /\ inspect = (W(4) :> W(0))

\* ------------------------------------------------------ loading the DRAM
\* The octets a stream may hold, and the longest stream.
Bytes == {0, 1, 255}
MaxBytes == 8
ByteStreams == UNION {[1..n -> Bytes] : n \in 0..MaxBytes}

\* Faulty variant of value: the four octets taken least significant first.
valueLittleEndian(buf) == <<buf[4] * 256 + buf[3], buf[2] * 256 + buf[1]>>

\* load_from_reader: the word built from the four octets of buf, buf[0]
\* (here buf[1]) the most significant.
value(buf) == <<buf[1] * 256 + buf[2], buf[3] * 256 + buf[4]>>

\* Faulty variant of LoadLoop: a short final read ends the load like the
\* end of the stream.
RECURSIVE LoadLoopShortIsEnd(_, _, _)
LoadLoopShortIsEnd(data, bytes, addr) ==
    IF Len(bytes) < 4 THEN [ok |-> TRUE, data |-> data]
    ELSE LoadLoopShortIsEnd(
             DRAMSet(data, addr, value(SubSeq(bytes, 1, 4))).data,
             SubSeq(bytes, 5, Len(bytes)), WAdd(addr, W(1)))

\* load_from_reader: the loop. Every read delivers as many octets as are
\* left, four at most, as the buffered reader does over a file or a slice.
RECURSIVE LoadLoop(_, _, _)
LoadLoop(data, bytes, addr) ==
    LET bytes_read == Min(4, Len(bytes))
    IN  IF bytes_read = 0 THEN [ok |-> TRUE, data |-> data]
        ELSE IF bytes_read # 4 THEN [ok |-> FALSE, data |-> data]
        ELSE LoadLoop(DRAMSet(data, addr, value(SubSeq(bytes, 1, 4))).data,
                      SubSeq(bytes, 5, Len(bytes)), WAdd(addr, W(1)))

load_from_reader(data, bytes) == LoadLoop(data, bytes, W(0))

\* A new DRAM, as the test of load_from_file builds it.
InitLoad ==
    /\ pipeline_enabled = TRUE
    /\ cache_enabled = FALSE
    /\ cycle_count = 0
    /\ registers = RegistersNew
    /\ first_instruction_loaded = FALSE
    /\ halt_encountered = FALSE
    /\ no_pipeline_instruction = None
    /\ fetch_instruction = None
    /\ fetch_instruction_bits = W(0)
    /\ decode_instruction = None
    /\ execute_instruction = None
    /\ access_mem_instruction = None
    /\ write_back_instruction = None
    /\ dram_delay = 0
    /\ dram_data = DRAMNew
    /\ cache_delay = CacheDelay
    /\ num_lines = Pow2(IdxBits)
    /\ lines = [i \in 0..(num_lines - 1) |-> DMCacheLineNew]
    /\ outcome = "running"
    /\ stepno = 0
    /\ last = [op |-> "none", bytes |-> <<>>, ok |-> TRUE]
    /\ hist = <<>>

\* dram.load_from_reader(src) on the new DRAM.
LoadFromReaderOp(bytes) ==
    /\ stepno = 0
    /\ LET r == load_from_reader(dram_data, bytes)
       IN  /\ dram_data' = r.data
           /\ last' = [op |-> "load", bytes |-> bytes, ok |-> r.ok]
    /\ stepno' = 1
    /\ UNCHANGED <<cu_vars, dram_delay, cache_delay, num_lines, lines,
                   outcome, hist>>

NextLoad == \E bytes \in ByteStreams : LoadFromReaderOp(bytes)

SpecLoad == InitLoad /\ [][NextLoad]_vars

FactoryWords ==
    {<<hi, top * 2 ^ 13 + field * 2 ^ 5 + low>> :
        hi \in {0, Half - 1}, top \in {0, 7}, field \in 0..255,
        low \in {0, 31}}

\* A new control unit, no step made.
InitFactory ==
    /\ pipeline_enabled = TRUE
    /\ cache_enabled = TRUE
    /\ cycle_count = 0
    /\ registers = RegistersNew
    /\ first_instruction_loaded = FALSE
    /\ halt_encountered = FALSE
    /\ no_pipeline_instruction = None
    /\ fetch_instruction = None
    /\ fetch_instruction_bits = W(0)
    /\ decode_instruction = None
    /\ execute_instruction = None
    /\ access_mem_instruction = None
    /\ write_back_instruction = None
    /\ dram_delay = DramDelay
    /\ dram_data = DRAMNew
    /\ cache_delay = CacheDelay
    /\ num_lines = Pow2(IdxBits)
    /\ lines = [i \in 0..(num_lines - 1) |-> DMCacheLineNew]
    /\ outcome = "running"
    /\ stepno = 0
    /\ last = [op |-> "none", bits |-> W(0), ok |-> TRUE, inst |-> None]
    /\ hist = <<>>

\* self.instruction_factory(ibits)
FactoryOp(ibits) ==
    /\ stepno = 0
    /\ LET f == instruction_factory(ibits)
       IN  /\ halt_encountered' = (halt_encountered \/ f.halt)
           /\ last' = [op |-> "factory", bits |-> ibits, ok |-> f.ok,
                       inst |-> f.inst]
    /\ stepno' = 1
    /\ UNCHANGED <<pipeline_enabled, cache_enabled, cycle_count, registers,
                   first_instruction_loaded, no_pipeline_instruction,
                   fetch_instruction, fetch_instruction_bits,
                   decode_instruction, execute_instruction,
                   access_mem_instruction, write_back_instruction,
                   mem_vars, outcome, hist>>

NextFactory == \E ibits \in FactoryWords : FactoryOp(ibits)

SpecFactory == InitFactory /\ [][NextFactory]_vars

\* MemoryOp::value, ControlOp::value, ALUOp::value: the instruction each
\* opcode names, in opcode order from 0 (ALU opcode 18 names none).
MemoryOpTable ==
    <<LoadNew("RD"), LoadNew("I"), StoreNew("RD"), StoreNew("I"),
      PushNew, PopNew>>

ControlOpTable ==
    <<HaltNew, JumpNew("RD", FALSE), JumpNew("I", FALSE),
      JumpNew("RD", TRUE), JumpNew("I", TRUE), RFINew, NoopNew>>

ALUOpTable ==
    <<ArithUnsignNew("RD", "Add"), ArithUnsignNew("I", "Add"),
      ArithSignNew("RD", "Add"), ArithSignNew("I", "Add"),
      ArithUnsignNew("RD", "Sub"), ArithUnsignNew("I", "Sub"),
      ArithSignNew("RD", "Sub"), ArithSignNew("I", "Sub"),
      ArithUnsignNew("RD", "Mul"), ArithUnsignNew("I", "Mul"),
      ArithSignNew("RD", "Mul"), ArithSignNew("I", "Mul"),
      ArithUnsignNew("RD", "Div"), ArithUnsignNew("I", "Div"),
      ArithSignNew("RD", "Div"), ArithSignNew("I", "Div"),
      MoveNew, CompNew, None,
      ASNew("RD", FALSE), ASNew("I", FALSE),
      ASNew("RD", TRUE), ASNew("I", TRUE),
      LSNew("RD", FALSE), LSNew("I", FALSE),
      LSNew("RD", TRUE), LSNew("I", TRUE),
      ThreeOpLogicNew("RD", "And"),
      ThreeOpLogicNew("I", "And"),
      ThreeOpLogicNew("RD", "Or"),
      ThreeOpLogicNew("I", "Or"),
      ThreeOpLogicNew("RD", "Xor"),
      ThreeOpLogicNew("I", "Xor"),
      NotNew>>

\* C22: the factory returns an error exactly when the type bits 5..6 are 3,
\* or the type is Control (0) with opcode bits 7..9 = 7, or Memory (2) with
\* opcode 6 or 7, or ALU (1) with opcode bits 7..12 = 18 or in 34..63; for
\* every other word it builds the instruction the opcode tables name, so
\* the outcome is a function of bits 5..12 alone.
C22_FactoryErrors ==
    last.op = "factory" =>
        LET itype == (last.bits[2] \div 2 ^ 5) % 4
            op3   == (last.bits[2] \div 2 ^ 7) % 8
            op6   == (last.bits[2] \div 2 ^ 7) % 64
            err   == \/ itype = 3
                     \/ itype = 0 /\ op3 = 7
                     \/ itype = 2 /\ op3 \in {6, 7}
                     \/ itype = 1 /\ (op6 = 18 \/ op6 \in 34..63)
        IN  /\ ~last.ok <=> err
            /\ ~err => last.inst = CASE itype = 0 -> ControlOpTable[op3 + 1]
                                     [] itype = 1 -> ALUOpTable[op6 + 1]
                                     [] OTHER -> MemoryOpTable[op3 + 1]

C22_Witness ==
    /\ last.op = "factory" /\ last.ok
    /\ last.inst = NotNew
    /\ last.bits[1] = Half - 1 /\ last.bits[2] % 2 ^ 5 = 31

\* ------------------------------------- one instruction, stage by stage
\* Instruction::write_back: the latency every modelled write_back returns.
WriteBackWait(inst) == 0 * Len(inst.kind)

\* The words whose instructions are run stage by stage: Comp, Load in both
\* modes, Store register direct, unsigned Add in both modes, over several
\* register fields and immediates.
InstWords ==
    {Enc(<<<<5, T_ALU>>, <<7, 17>>, <<13, a>>, <<18, b>>>>) :
        a \in {5, 10}, b \in {5, 10, 17}}
    \cup {Enc(<<<<5, T_MEMORY>>, <<7, 0>>, <<10, d>>, <<15, a>>>>) :
        d \in {6, 20}, a \in {6, 8}}
    \cup {Enc(<<<<5, T_MEMORY>>, <<7, 1>>, <<10, 21>>, <<15, off>>>>) :
        off \in {0, 3}}
    \cup {Enc(<<<<5, T_MEMORY>>, <<7, 2>>, <<10, a>>, <<15, v>>>>) :
        a \in {6, 8}, v \in {5, 10}}
    \cup {Enc(<<<<5, T_ALU>>, <<7, 0>>, <<13, d>>, <<18, a>>, <<23, b>>>>) :
        d \in {2, 10}, a \in {5, 10}, b \in {5, 17}}
    \cup {WAdd(Enc(<<<<5, T_ALU>>, <<7, 1>>, <<13, d>>, <<18, a>>>>),
               <<imm * 2 ^ (23 - 16), 0>>) :
        d \in {2, 10}, a \in {5, 10}, imm \in {2, 511}}

\* Operands at the top of the u32 range, next to small ones.
BigRegs ==
    [i \in 0..(REGISTERS_SIZE - 1) |->
        CASE i = 10 -> <<Half - 1, Half - 1>> [] i = 17 -> W(22)
          [] i = 5 -> <<Half \div 2 - 1, Half - 1>> [] i = 6 -> W(1)
          [] i = 8 -> W(3) [] OTHER -> W(0)]

\* An instruction just built by the factory from its word, registers set
\* up for it, and a memory (the DRAM, or a new cache over it).
InitInst ==
    /\ pipeline_enabled = FALSE
    /\ cache_enabled \in BOOLEAN
    /\ cycle_count = 0
    /\ registers \in {PresetRegs, BigRegs}
    /\ first_instruction_loaded = FALSE
    /\ halt_encountered = FALSE
    /\ fetch_instruction_bits \in InstWords
    /\ no_pipeline_instruction = instruction_factory(fetch_instruction_bits).inst
    /\ fetch_instruction = None
    /\ decode_instruction = None
    /\ execute_instruction = None
    /\ access_mem_instruction = None
    /\ write_back_instruction = None
    /\ dram_delay = DramDelay
    /\ dram_data \in {DRAMNew, MemImage}
    /\ cache_delay = CacheDelay
    /\ num_lines = Pow2(IdxBits)
    /\ lines = [i \in 0..(num_lines - 1) |-> DMCacheLineNew]
    /\ outcome = "running"
    /\ stepno = 0
    /\ last = [stage |-> "none"]
    /\ hist = <<>>

\* What a stage call leaves in the history: its returned latency, the
\* memory calls it made with what the memory returned for them, and the
\* registers it was handed.
StageRecord(stage, wait, ops, reported) ==
    [stage |-> stage, wait |-> wait, ops |-> ops, reported |-> reported,
     regs |-> registers]

\* instruction.decode(bits, &registers)
InstDecode ==
    /\ outcome = "running" /\ stepno = 0
    /\ \E chk \in BOOLEAN :
          LET d == Decode(no_pipeline_instruction, fetch_instruction_bits,
                          registers, chk)
          IN  IF d.panic
              THEN /\ outcome' = "panicked"
                   /\ UNCHANGED <<no_pipeline_instruction, stepno, last, hist>>
              ELSE /\ outcome' = "running"
                   /\ no_pipeline_instruction' = d.inst
                   /\ stepno' = 1
                   /\ last' = StageRecord("decode", d.wait, <<>>, None)
                   /\ hist' = Append(hist, last')
    /\ UNCHANGED <<pipeline_enabled, cache_enabled, cycle_count, registers,
                   first_instruction_loaded, halt_encountered,
                   fetch_instruction, fetch_instruction_bits,
                   decode_instruction, execute_instruction,
                   access_mem_instruction, write_back_instruction, mem_vars>>

\* instruction.execute()
InstExecute ==
    /\ outcome = "running" /\ stepno = 1
    /\ \E chk \in BOOLEAN :
          LET e == Execute(no_pipeline_instruction, chk)
          IN  IF e.panic
              THEN /\ outcome' = "panicked"
                   /\ UNCHANGED <<no_pipeline_instruction, stepno, last, hist>>
              ELSE /\ outcome' = "running"
                   /\ no_pipeline_instruction' = e.inst
                   /\ stepno' = 2
                   /\ last' = StageRecord("execute", e.wait, <<>>, None)
                   /\ hist' = Append(hist, last')
    /\ UNCHANGED <<pipeline_enabled, cache_enabled, cycle_count, registers,
                   first_instruction_loaded, halt_encountered,
                   fetch_instruction, fetch_instruction_bits,
                   decode_instruction, execute_instruction,
                   access_mem_instruction, write_back_instruction, mem_vars>>

\* instruction.access_memory(memory)
InstAccessMemory ==
    /\ outcome = "running" /\ stepno = 2
    /\ LET am == AccessMemory(no_pipeline_instruction, MemState)
           reported == CASE no_pipeline_instruction.kind = "Load" ->
                               MemGet(MemState,
                                      no_pipeline_instruction.mem_addr)
                         [] no_pipeline_instruction.kind = "Store" ->
                               MemSet(MemState,
                                      no_pipeline_instruction.dest_addr,
                                      no_pipeline_instruction.value)
                         [] no_pipeline_instruction.kind = "Push" ->
                               MemSet(MemState,
                                      no_pipeline_instruction.addr,
                                      no_pipeline_instruction.value)
                         [] no_pipeline_instruction.kind = "Pop" ->
                               MemGet(MemState,
                                      no_pipeline_instruction.addr)
                         [] OTHER -> None
       IN  IF am.panic
           THEN /\ outcome' = "panicked"
                /\ UNCHANGED <<no_pipeline_instruction, stepno, last, hist,
                               dram_data, lines>>
           ELSE /\ outcome' = "running"
                /\ no_pipeline_instruction' = am.inst
                /\ dram_data' = am.data
                /\ lines' = am.lines
                /\ stepno' = 3
                /\ last' = StageRecord("access_memory", am.wait, am.ops,
                                       reported)
                /\ hist' = Append(hist, last')
    /\ UNCHANGED <<pipeline_enabled, cache_enabled, cycle_count, registers,
                   first_instruction_loaded, halt_encountered,
                   fetch_instruction, fetch_instruction_bits,
                   decode_instruction, execute_instruction,
                   access_mem_instruction, write_back_instruction,
                   dram_delay, cache_delay, num_lines>>

\* instruction.write_back(&mut registers)
InstWriteBack ==
    /\ outcome = "running" /\ stepno = 3
    /\ \E chk \in BOOLEAN :
          IF WriteBackPanics(no_pipeline_instruction, registers, chk)
          THEN /\ outcome' = "panicked"
               /\ UNCHANGED <<registers, stepno, last, hist>>
          ELSE /\ outcome' = "running"
               /\ registers' = WriteBack(no_pipeline_instruction, registers)
               /\ stepno' = 4
               /\ last' = StageRecord("write_back",
                                      WriteBackWait(no_pipeline_instruction),
                                      <<>>, None)
               /\ hist' = Append(hist, last')
    /\ UNCHANGED <<pipeline_enabled, cache_enabled, cycle_count,
                   first_instruction_loaded, halt_encountered,
                   no_pipeline_instruction, fetch_instruction,
                   fetch_instruction_bits, decode_instruction,
                   execute_instruction, access_mem_instruction,
                   write_back_instruction, mem_vars>>

NextInst ==
    \/ InstDecode
    \/ InstExecute
    \/ InstAccessMemory
    \/ InstWriteBack

SpecInst == InitInst /\ [][NextInst]_vars

\* The instruction has been through its four stages.
Retired(kind) == stepno = 4 /\ no_pipeline_instruction.kind = kind

\* Every register but those of idxs is as write_back received it.
OnlyWritten(idxs) ==
    \A i \in (0..(REGISTERS_SIZE - 1)) \ idxs : registers[i] = hist[4].regs[i]

\* C23: after a Compare has written back, regs[STS] is 4 if op1 < op2, 3
\* if op1 > op2 and 2 if they are equal, op1 = regs[bits 13..17] and
\* op2 = regs[bits 18..22] as decode read them, compared as unsigned 32-bit
\* words; no other register changes and no stage calls the memory.
C23_CompareSetsSTS ==
    Retired("Comp") =>
        LET op1 == hist[1].regs[GetBits(fetch_instruction_bits, 13, 17)]
            op2 == hist[1].regs[GetBits(fetch_instruction_bits, 18, 22)]
            lt  == op1[1] < op2[1] \/ (op1[1] = op2[1] /\ op1[2] < op2[2])
            gt  == op2[1] < op1[1] \/ (op1[1] = op2[1] /\ op2[2] < op1[2])
        IN  /\ registers[STS] = W(IF lt THEN 4 ELSE IF gt THEN 3 ELSE 2)
            /\ OnlyWritten({STS})
            /\ \A k \in 1..4 : hist[k].ops = <<>>

C23_Witness ==
    /\ Retired("Comp")
    /\ hist[1].regs = BigRegs
    /\ GetBits(fetch_instruction_bits, 13, 17) = 10
    /\ GetBits(fetch_instruction_bits, 18, 22) = 17
    /\ registers[STS] = W(3)

\* C24: for a Load in either addressing mode run through its four stages,
\* access_memory makes exactly one memory get, at the decoded mem_addr
\* (regs[bits 15..19] for register direct), and returns the latency the
\* memory reported; the other three stages return latency 0; afterwards
\* regs[bits 10..14] holds the word the memory returned and every other
\* register is unchanged.
C24_Load ==
    Retired("Load") =>
        LET inst == no_pipeline_instruction
            dest == GetBits(fetch_instruction_bits, 10, 14)
        IN  /\ inst.mem_addr_mode = "RD" =>
                   inst.mem_addr =
                       hist[1].regs[GetBits(fetch_instruction_bits, 15, 19)]
            /\ inst.mem_addr_mode = "I" =>
                   inst.mem_addr =
                       W(hist[1].regs[PC][2] + 1
                         + GetBits(fetch_instruction_bits, 15, 31))
            /\ hist[3].ops = <<<<"get", inst.mem_addr>>>>
            /\ hist[3].wait = hist[3].reported.wait
            /\ hist[3].wait = (IF cache_enabled THEN cache_delay + dram_delay
                               ELSE dram_delay)
            /\ hist[1].wait = 0 /\ hist[2].wait = 0 /\ hist[4].wait = 0
            /\ registers[dest] = hist[3].reported.val
            /\ registers[dest] = dram_data[inst.mem_addr]
            /\ OnlyWritten({dest})

C24_Witness ==
    /\ Retired("Load") /\ cache_enabled
    /\ no_pipeline_instruction.mem_addr_mode = "RD"
    /\ no_pipeline_instruction.mem_addr = W(1)
    /\ registers[20] = W(6)
    /\ hist[3].wait = CacheDelay + DramDelay

\* C25: for a register-direct Store, decode takes dest_addr =
\* regs[bits 10..14] and value = regs[bits 15..19]; access_memory makes
\* exactly one memory set(dest_addr, value) and returns the latency the
\* memory reported; write_back leaves every register unchanged.
C25_StoreRD ==
    (Retired("Store") /\ no_pipeline_instruction.mem_addr_mode = "RD") =>
        LET dest_addr == hist[1].regs[GetBits(fetch_instruction_bits, 10, 14)]
            stored    == hist[1].regs[GetBits(fetch_instruction_bits, 15, 19)]
        IN  /\ no_pipeline_instruction.dest_addr = dest_addr
            /\ no_pipeline_instruction.value = stored
            /\ hist[3].ops = <<<<"set", dest_addr, stored>>>>
            /\ hist[3].wait = hist[3].reported.wait
            /\ hist[3].wait = (IF cache_enabled THEN cache_delay
                               ELSE dram_delay)
            /\ ~cache_enabled => dram_data[dest_addr] = stored
            /\ cache_enabled =>
                   lines[dest_addr[2] % num_lines].data = stored
            /\ OnlyWritten({})

C25_Witness ==
    /\ Retired("Store") /\ ~cache_enabled
    /\ hist[1].regs = BigRegs
    /\ hist[3].ops = <<<<"set", W(3), <<Half - 1, Half - 1>>>>>>
    /\ hist[3].wait = DramDelay

\* C26: for an unsigned Add in either addressing mode, decode takes dest =
\* bits 13..17, op1 = regs[bits 18..22] and op2 = regs[bits 23..27]
\* (register direct) or the 9-bit field bits 23..31 (immediate); after
\* execute and write_back regs[dest] = op1 + op2 whenever the sum fits in
\* 32 bits, no other register changes, and all four stages return latency 0.
C26_AddUnsigned ==
    (Retired("ArithUnsign") /\ no_pipeline_instruction.operation = "Add") =>
        LET inst  == no_pipeline_instruction
            dest  == GetBits(fetch_instruction_bits, 13, 17)
            op1   == hist[1].regs[GetBits(fetch_instruction_bits, 18, 22)]
            op2   == IF inst.mem_addr_mode = "RD"
                     THEN hist[1].regs[GetBits(fetch_instruction_bits, 23, 27)]
                     ELSE W(GetBits(fetch_instruction_bits, 23, 31))
            lo    == op1[2] + op2[2]
            hi    == op1[1] + op2[1] + lo \div Half
        IN  /\ inst.dest = dest /\ inst.op1 = op1 /\ inst.op2 = op2
            /\ hi < Half => registers[dest] = <<hi, lo % Half>>
            /\ OnlyWritten({dest})
            /\ \A k \in 1..4 : hist[k].wait = 0 /\ hist[k].ops = <<>>

C26_Witness ==
    /\ Retired("ArithUnsign")
    /\ no_pipeline_instruction.mem_addr_mode = "I"
    /\ no_pipeline_instruction.op2 = W(511)
    /\ no_pipeline_instruction.op1 = <<Half \div 2 - 1, Half - 1>>
    /\ registers[2] = <<Half \div 2, 510>>

\* ------------------------------------------------------ the register file
\* impl Index<usize> for Registers
index(regs, idx) == regs[idx]

\* Faulty variant of index_mut: the file taken to have 16 registers.
index_mutHalfFile(regs, idx, v) == [regs EXCEPT ![idx % 16] = v]

\* impl IndexMut<usize> for Registers, with the assignment through it.
index_mut(regs, idx, v) == [regs EXCEPT ![idx] = v]

\* The most register writes of a run, and the words written.
MaxRegWrites == 2
RegWords == {W(7), <<Half - 1, Half - 1>>}

\* Registers::new()
InitRegs ==
    /\ pipeline_enabled = TRUE
    /\ cache_enabled = TRUE
    /\ cycle_count = 0
    /\ registers = RegistersNew
    /\ first_instruction_loaded = FALSE
    /\ halt_encountered = FALSE
    /\ no_pipeline_instruction = None
    /\ fetch_instruction = None
    /\ fetch_instruction_bits = W(0)
    /\ decode_instruction = None
    /\ execute_instruction = None
    /\ access_mem_instruction = None
    /\ write_back_instruction = None
    /\ dram_delay = DramDelay
    /\ dram_data = DRAMNew
    /\ cache_delay = CacheDelay
    /\ num_lines = Pow2(IdxBits)
    /\ lines = [i \in 0..(num_lines - 1) |-> DMCacheLineNew]
    /\ outcome = "running"
    /\ stepno = 0
    /\ last = [op |-> "none", idx |-> 0, val |-> W(0), regs |-> RegistersNew]
    /\ hist = <<>>

\* regs[idx] = v
RegisterWrite(idx, v) ==
    /\ stepno < MaxRegWrites
    /\ registers' = index_mut(registers, idx, v)
    /\ last' = [op |-> "write", idx |-> idx, val |-> v, regs |-> registers]
    /\ stepno' = stepno + 1
    /\ UNCHANGED <<pipeline_enabled, cache_enabled, cycle_count,
                   first_instruction_loaded, halt_encountered,
                   no_pipeline_instruction, fetch_instruction,
                   fetch_instruction_bits, decode_instruction,
                   execute_instruction, access_mem_instruction,
                   write_back_instruction, mem_vars, outcome, hist>>

NextRegs ==
    \E idx \in 0..(REGISTERS_SIZE - 1), v \in RegWords : RegisterWrite(idx, v)

SpecRegs == InitRegs /\ [][NextRegs]_vars

\* C27: a new register file has exactly 32 registers, all zero, with INTLR,
\* IHDLR, PC, STS, SP, LR at 26, 27, 28, 29, 30, 31; writing regs[i] := v
\* and reading regs[i] yields v and leaves every other register unchanged.
C27_RegisterFile ==
    /\ DOMAIN registers = 0..31
    /\ <<INTLR, IHDLR, PC, STS, SP, LR>> = <<26, 27, 28, 29, 30, 31>>
    /\ stepno = 0 => \A i \in 0..31 : index(registers, i) = W(0)
    /\ last.op = "write" =>
           /\ index(registers, last.idx) = last.val
           /\ \A j \in (0..31) \ {last.idx} :
                  index(registers, j) = index(last.regs, j)

C27_Witness ==
    /\ last.op = "write" /\ last.idx = LR
    /\ registers[LR] = <<Half - 1, Half - 1>>
    /\ registers[0] = W(7)

\* ------------------------------------- instructions that meet in the pipe
\* ADD unsigned register direct, dest = R3, op1 = R2, op2 = R10
ReadWord == Enc(<<<<5, T_ALU>>, <<7, 0>>, <<13, 3>>, <<18, 2>>, <<23, 10>>>>)
\* ADD unsigned immediate, dest = R10, op1 = R2, imm = 1
ChainWord == Enc(<<<<5, T_ALU>>, <<7, 1>>, <<13, 10>>, <<18, 2>>, <<23, 1>>>>)

HazardWords == {AddWord, ReadWord, ChainWord, StoreWord, NoopWord}

\* The length of the program images whose instructions meet in the pipe.
HazardLen == 4

\* Registers preset so that StoreWord writes an instruction word (one that
\* is in no image) over the last word of the image.
HazardRegs ==
    [i \in 0..(REGISTERS_SIZE - 1) |->
        CASE i = 10 -> W(12) [] i = 8 -> W(HazardLen - 1)
          [] i = 5 -> CompWord [] OTHER -> W(0)]

\* ControlUnit::new in pipelined mode over an image of HazardLen words.
InitHazard ==
    /\ pipeline_enabled = TRUE
    /\ cache_enabled \in BOOLEAN
    /\ cycle_count = 0
    /\ registers = HazardRegs
    /\ first_instruction_loaded = FALSE
    /\ halt_encountered = FALSE
    /\ no_pipeline_instruction = None
    /\ fetch_instruction = None
    /\ fetch_instruction_bits = W(0)
    /\ decode_instruction = None
    /\ execute_instruction = None
    /\ access_mem_instruction = None
    /\ write_back_instruction = None
    /\ dram_delay = DramDelay
    /\ dram_data \in [{W(k) : k \in 0..(HazardLen - 1)} -> HazardWords]
    /\ cache_delay = CacheDelay
    /\ num_lines = Pow2(IdxBits)
    /\ lines = [i \in 0..(num_lines - 1) |-> DMCacheLineNew]
    /\ outcome = "running"
    /\ stepno = 0
    /\ last = [n |-> 0, mode |-> "none", early |-> FALSE,
               cycles_before |-> 0, lat |-> 0,
               fetch_read |-> FALSE, fetch_addr |-> W(0),
               fetch_bits |-> W(0), wb_pc |-> W(0), mem_ops |-> <<>>,
               ret |-> "none"]
    /\ hist = <<>>

NextHazard == stepno < MaxSteps /\ StepPipeline

SpecHazard == InitHazard /\ [][NextHazard]_vars

\* The registers decode reads for an instruction, each with the value the
\* instruction holds for it.
SourceRegs(inst, bits) ==
    CASE inst.kind = "ArithUnsign" ->
            {<<GetBits(bits, 18, 22), inst.op1>>}
            \cup (IF inst.mem_addr_mode = "RD"
                  THEN {<<GetBits(bits, 23, 27), inst.op2>>} ELSE {})
      [] inst.kind = "Comp" ->
            {<<GetBits(bits, 13, 17), inst.op1>>,
             <<GetBits(bits, 18, 22), inst.op2>>}
      [] inst.kind = "Store" ->
            {<<GetBits(bits, 10, 14), inst.dest_addr>>}
            \cup (IF inst.mem_addr_mode = "RD"
                  THEN {<<GetBits(bits, 15, 19), inst.value>>} ELSE {})
      [] inst.kind = "Load" ->
            IF inst.mem_addr_mode = "RD"
            THEN {<<GetBits(bits, 15, 19), inst.mem_addr>>} ELSE {}
      [] inst.kind = "Move" -> {<<GetBits(bits, 18, 22), inst.value>>}
      [] OTHER -> {}

SlotReads(slot, h) ==
    IF IsSome(slot) THEN SourceRegs(slot, h[slot.id].bits) ELSE {}

\* The registers an instruction's write_back may write.
DestRegs(slot) ==
    CASE slot.kind = "ArithUnsign" -> {slot.dest}
      [] slot.kind = "Load" -> {slot.dest_reg}
      [] slot.kind = "Move" -> {slot.dest}
      [] slot.kind = "Comp" -> {STS}
      [] slot.kind = "Jump" -> {PC, LR}
      [] slot.kind = "RFI" -> {STS, PC}
      [] OTHER -> {}

\* C28: in a pipelined step the write back runs before the decode: the
\* instruction decoded in the step holds, for every register it read, the
\* value the registers have after the step's write back; the instruction
\* decoded one step earlier holds the values from before this step's write
\* back, and so does the one decoded two steps earlier, for the registers
\* the previous step's write back did not write.
C28_WriteBackBeforeDecode ==
    [][(pipeline_enabled /\ stepno' = stepno + 1) =>
          /\ \A p \in SlotReads(decode_instruction', hist') :
                 p[1] # PC => p[2] = registers'[p[1]]
          /\ \A p \in SlotReads(execute_instruction', hist') :
                 p[1] # PC => p[2] = registers[p[1]]
          /\ \A p \in SlotReads(access_mem_instruction', hist') :
                 (p[1] # PC /\ p[1] \notin DestRegs(write_back_instruction))
                     => p[2] = registers[p[1]]]_vars

C28_Witness ==
    /\ pipeline_enabled
    /\ IsSome(write_back_instruction) /\ write_back_instruction.id = 1
    /\ hist[1].bits = AddWord /\ registers[2] = W(14)
    /\ hist[2].bits = ReadWord /\ access_mem_instruction.op1 = W(0)
    /\ hist[3].bits = ReadWord /\ execute_instruction.op1 = W(0)
    /\ hist[4].bits = ReadWord /\ decode_instruction.op1 = W(14)

\* C29: in a pipelined step the access memory stage's memory call is made
\* before the fetch's read: when the stage stores a word at the address the
\* same step fetches from, the fetch reads that word.
C29_StoreSeenByFetch ==
    (last.mode = "pipeline" /\ last.fetch_read) =>
        \A i \in DOMAIN last.mem_ops :
            (last.mem_ops[i][1] = "set" /\ last.mem_ops[i][2] = last.fetch_addr)
                => last.fetch_bits = last.mem_ops[i][3]

C29_Witness ==
    /\ last.mode = "pipeline" /\ last.fetch_read
    /\ last.mem_ops = <<<<"set", W(HazardLen - 1), CompWord>>>>
    /\ last.fetch_addr = W(HazardLen - 1)
    /\ last.fetch_bits = CompWord
    /\ fetch_instruction.kind = "Comp"

\* C30: with the cache in use, the latency a get or a set returns is
\* exactly the cache delay on a hit; on a get that misses, the cache delay,
\* plus the base set latency when the resident line is valid, dirty and of
\* another tag, plus the base get latency; on a set that misses, the cache
\* delay, plus the base set latency when the resident line is valid, dirty
\* and of another tag.
C30_CacheLatency ==
    [][\A a \in MemAddrs :
          LET line  == lines[a % num_lines]
              hit   == line.valid /\ line.tag = W(a \div num_lines)
              evict == line.valid /\ line.dirty
                       /\ line.tag # W(a \div num_lines)
              evict_wait == IF evict THEN dram_delay ELSE 0
          IN  /\ (cache_enabled /\ MemGetOp(a)) =>
                     last'.wait = IF hit THEN cache_delay
                                  ELSE cache_delay + evict_wait + dram_delay
              /\ (/\ cache_enabled /\ outcome' = "running"
                  /\ \E v \in MemWords : MemSetOp(a, v)) =>
                     last'.wait = IF hit THEN cache_delay
                                  ELSE cache_delay + evict_wait]_vars

C30_Witness ==
    /\ cache_enabled /\ last.op = "get"
    /\ Len(last.base_ops) = 2 /\ last.base_ops[1][1] = "set"
    /\ last.wait = cache_delay + dram_delay + dram_delay

\* --------------------------------------- every instruction, stage by stage
\* The word with value v in the field starting at bit pos, and the word
\* with several fields set, for fields that reach above bit 30.
Field(pos, v) ==
    IF pos >= 16 THEN <<(v * Pow2(pos - 16)) % Half, 0>>
    ELSE <<(v \div Pow2(16 - pos)) % Half, (v % Pow2(16 - pos)) * Pow2(pos)>>

RECURSIVE EncWide(_)
EncWide(fields) ==
    IF fields = <<>> THEN W(0)
    ELSE WAdd(Field(fields[1][1], fields[1][2]), EncWide(Tail(fields)))

\* The shift words: ASL, ASR, LSL, LSR, register direct and immediate.
ShiftWords ==
    {EncWide(<<<<5, T_ALU>>, <<7, iop>>, <<13, d>>, <<18, a>>>>) :
        iop \in {19, 21, 23, 25}, d \in {5, 10}, a \in {6, 8}}
    \cup {EncWide(<<<<5, T_ALU>>, <<7, iop>>, <<13, d>>, <<18, k>>>>) :
        iop \in {20, 22, 24, 26}, d \in {5, 10}, k \in {1, 4, 40}}

\* Load immediate with offsets fields of either top bit, and the other
\* memory instructions.
MemoryWords ==
    {EncWide(<<<<5, T_MEMORY>>, <<7, 1>>, <<10, 21>>, <<15, f>>>>) :
        f \in {0, 3, Pow2(16), Pow2(17) - 3, Pow2(17) - 1}}
    \cup {EncWide(<<<<5, T_MEMORY>>, <<7, 0>>, <<10, 20>>, <<15, a>>>>) :
        a \in {6, 8}}
    \cup {EncWide(<<<<5, T_MEMORY>>, <<7, iop>>, <<10, 8>>, <<15, v>>>>) :
        iop \in {2, 3}, v \in {5, 10}}
    \cup {EncWide(<<<<5, T_MEMORY>>, <<7, iop>>, <<11, r>>>>) :
        iop \in {4, 5}, r \in {6, 8, SP}}

\* Arithmetic, Move, Compare, logic and Not.
ALUWords ==
    {EncWide(<<<<5, T_ALU>>, <<7, iop>>, <<13, 2>>, <<18, a>>, <<23, b>>>>) :
        iop \in {0, 1, 4, 5, 8, 9, 12, 13}, a \in {5, 10}, b \in {6, 17}}
    \cup {EncWide(<<<<5, T_ALU>>, <<7, iop>>, <<14, 2>>, <<19, a>>,
                    <<24, b>>>>) :
        iop \in {2, 3, 6, 7, 10, 11, 14, 15}, a \in {5, 10}, b \in {6, 17}}
    \cup {EncWide(<<<<5, T_ALU>>, <<7, 16>>, <<13, d>>, <<18, a>>>>) :
        d \in {2, PC}, a \in {5, 10}}
    \cup {EncWide(<<<<5, T_ALU>>, <<7, 17>>, <<13, 5>>, <<18, b>>>>) :
        b \in {5, 10}}
    \cup {EncWide(<<<<5, T_ALU>>, <<7, iop>>, <<13, 2>>, <<18, a>>,
                    <<23, 341>>>>) :
        iop \in 27..32, a \in {5, 10}}
    \cup {EncWide(<<<<5, T_ALU>>, <<7, 33>>, <<13, 2>>, <<18, a>>>>) :
        a \in {5, 10}}

\* Jumps of the four kinds, unconditional and on LT, RFI, Halt and Noop.
ControlWords ==
    {EncWide(<<<<0, c>>, <<5, T_CONTROL>>, <<7, iop>>, <<10, 8>>>>) :
        c \in {CC_NS, CC_LT}, iop \in 1..4}
    \cup {EncWide(<<<<5, T_CONTROL>>, <<7, iop>>>>) : iop \in {0, 5, 6}}

StageWords == ShiftWords \cup MemoryWords \cup ALUWords \cup ControlWords

\* Registers as an interrupt handler about to return finds them, with
\* operands at the edges of the i32 range and a shift amount above 31.
RetRegs ==
    [i \in 0..(REGISTERS_SIZE - 1) |->
        CASE i = STS -> W(9) [] i = INTLR -> W(40) [] i = PC -> W(10)
          [] i = SP -> W(4) [] i = 10 -> <<Half \div 2, 0>>
          [] i = 17 -> <<Half - 1, Half - 1>> [] i = 5 -> W(6)
          [] i = 6 -> W(35) [] i = 8 -> W(3) [] OTHER -> W(0)]

\* The same with STS holding NOT_SET_INITIAL as u32.
IntRegs == [RetRegs EXCEPT ![STS] = W(IC_NOT_SET_INITIAL)]

\* An instruction of any dispatched kind just built by the factory.
InitStages ==
    /\ pipeline_enabled = FALSE
    /\ cache_enabled \in BOOLEAN
    /\ cycle_count = 0
    /\ registers \in {PresetRegs, BigRegs, RetRegs, IntRegs}
    /\ first_instruction_loaded = FALSE
    /\ halt_encountered = FALSE
    /\ fetch_instruction_bits \in StageWords
    /\ no_pipeline_instruction
           = instruction_factory(fetch_instruction_bits).inst
    /\ fetch_instruction = None
    /\ decode_instruction = None
    /\ execute_instruction = None
    /\ access_mem_instruction = None
    /\ write_back_instruction = None
    /\ dram_delay = DramDelay
    /\ dram_data \in {DRAMNew, MemImage}
    /\ cache_delay = CacheDelay
    /\ num_lines = Pow2(IdxBits)
    /\ lines = [i \in 0..(num_lines - 1) |-> DMCacheLineNew]
    /\ outcome = "running"
    /\ stepno = 0
    /\ last = [stage |-> "none"]
    /\ hist = <<>>

SpecStages == InitStages /\ [][NextInst]_vars

\* C31: after a shift instruction has written back, with an amount below
\* 32 taken from regs[bits 18..22] (register direct) or bits 18..31
\* (immediate), regs[bits 13..17] holds its value at decode shifted left by
\* the amount for the ASL and LSL opcodes (19, 20, 23, 24) and shifted
\* right by the amount (logically or arithmetically) for the ASR and LSR
\* opcodes (21, 22, 25, 26).
C31_ShiftDirection ==
    (stepno = 4 /\ no_pipeline_instruction.kind \in {"AS", "LS"}) =>
        LET bits == fetch_instruction_bits
            iop == GetBits(bits, 7, 12)
            dest == GetBits(bits, 13, 17)
            before == hist[1].regs
            amount == IF iop % 2 = 1 THEN before[GetBits(bits, 18, 22)]
                      ELSE W(GetBits(bits, 18, 31))
        IN  (amount[1] = 0 /\ amount[2] < 32) =>
                IF iop \in {19, 20, 23, 24}
                THEN registers[dest] = Shl(before[dest], amount[2])
                ELSE registers[dest] \in {Shr(before[dest], amount[2]),
                                          Sar(before[dest], amount[2])}

\* C32: after its decode a Load immediate holds mem_addr = regs[PC] + 1 + s
\* modulo 2^32, s being the 17-bit field bits 15..31 read as a two's
\* complement number, so that a field with its top bit set gives an address
\* below regs[PC] + 1.
C32_LoadImmSignExtends ==
    (/\ stepno >= 1 /\ no_pipeline_instruction.kind = "Load"
     /\ no_pipeline_instruction.mem_addr_mode = "I") =>
        LET f == GetBits(fetch_instruction_bits, 15, 31)
            s == IF f >= Pow2(16) THEN WSub(W(f), W(Pow2(17))) ELSE W(f)
        IN  no_pipeline_instruction.mem_addr
                = WAdd(WAdd(hist[1].regs[PC], W(1)), s)

\* C33: after an RFI has written back, if regs[STS] was not the 'not set
\* initial' code then regs[STS] is 0, regs[PC] is the value regs[INTLR] had
\* and no other register has changed; if regs[STS] was that code, no
\* register has changed.
C33_RFIWriteBack ==
    Retired("RFI") =>
        IF hist[4].regs[STS] # W(IC_NOT_SET_INITIAL)
        THEN registers = [[hist[4].regs EXCEPT ![STS] = W(0)]
                             EXCEPT ![PC] = hist[4].regs[INTLR]]
        ELSE registers = hist[4].regs

\* C34: every stage an ALU or control instruction (Move, signed and
\* unsigned arithmetic, Compare, the shifts, And, Or, Xor, Not, Jump, RFI,
\* Halt, Noop) has returned from reported latency 0 and made no memory
\* call; Load and Pop make exactly one get and Store and Push exactly one
\* set, in access_memory, and no memory call in the other stages; a Move
\* that has written back leaves in regs[bits 13..17] the value
\* regs[bits 18..22] had at decode.
C34_StageFrame ==
    LET kind == no_pipeline_instruction.kind
        MemCalls(rec, op) ==
            IF rec.stage = "access_memory"
            THEN Len(rec.ops) = 1 /\ rec.ops[1][1] = op
            ELSE rec.ops = <<>>
    IN  /\ \A i \in DOMAIN hist :
              CASE kind \in {"Load", "Pop"} -> MemCalls(hist[i], "get")
                [] kind \in {"Store", "Push"} -> MemCalls(hist[i], "set")
                [] OTHER -> hist[i].wait = 0 /\ hist[i].ops = <<>>
        /\ Retired("Move") =>
              registers[GetBits(fetch_instruction_bits, 13, 17)]
                  = hist[1].regs[GetBits(fetch_instruction_bits, 18, 22)]

C34_Witness ==
    /\ Retired("Pop") /\ hist[3].ops = <<<<"get", W(4)>>>>
    /\ hist[3].wait = dram_delay + (IF cache_enabled THEN cache_delay ELSE 0)
    /\ registers[SP] = W(5)

\* C35: with the cache in use, after every get and set each line that is
\* valid and not dirty holds the word the base memory stores at the line's
\* address tag * N + index, and a line that is valid stays valid.
C35_CleanLinesAgree ==
    [][cache_enabled =>
          \A idx \in 0..(num_lines - 1) :
              /\ (lines'[idx].valid /\ ~lines'[idx].dirty) =>
                     LET addr == W(lines'[idx].tag[2] * num_lines + idx)
                     IN  /\ addr \in DOMAIN dram_data'
                         /\ dram_data'[addr] = lines'[idx].data
              /\ lines[idx].valid => lines'[idx].valid]_vars

C35_Witness ==
    /\ cache_enabled /\ last.op = "get" /\ Len(last.base_ops) = 2
    /\ LET line == lines[last.addr % num_lines]
       IN  /\ line.valid /\ ~line.dirty /\ line.data \in MemWords
           /\ dram_data[W(last.addr)] = line.data

\* ------------------------------------------------ jumps in the pipeline
\* Jump immediate, unconditional, to word 2 of the image
JmpNearWord == Enc(<<<<0, CC_NS>>, <<5, T_CONTROL>>, <<7, 2>>, <<10, 2>>>>)

JumpWords == {JmpNearWord, JmpLTWord, JmpSWord}
FollowWords == {AddWord, ReadWord, NoopWord}

\* ControlUnit::new in pipelined mode over an image of HazardLen words with
\* a jump among its first two words, followed by instructions that are not
\* jumps; regs[STS] such that the conditional jump is or is not taken.
InitJump ==
    /\ pipeline_enabled = TRUE
    /\ cache_enabled \in BOOLEAN
    /\ cycle_count = 0
    /\ registers \in {HazardRegs, [HazardRegs EXCEPT ![STS] = W(CC_LT)]}
    /\ first_instruction_loaded = FALSE
    /\ halt_encountered = FALSE
    /\ no_pipeline_instruction = None
    /\ fetch_instruction = None
    /\ fetch_instruction_bits = W(0)
    /\ decode_instruction = None
    /\ execute_instruction = None
    /\ access_mem_instruction = None
    /\ write_back_instruction = None
    /\ dram_delay = DramDelay
    /\ dram_data \in {f \in [{W(k) : k \in 0..(HazardLen - 1)} ->
                                JumpWords \cup FollowWords] :
                         /\ f[W(0)] \in JumpWords \cup {NoopWord}
                         /\ f[W(1)] \in JumpWords \cup {AddWord}
                         /\ \A k \in 2..(HazardLen - 1) :
                                f[W(k)] \in FollowWords}
    /\ cache_delay = CacheDelay
    /\ num_lines = Pow2(IdxBits)
    /\ lines = [i \in 0..(num_lines - 1) |-> DMCacheLineNew]
    /\ outcome = "running"
    /\ stepno = 0
    /\ last = [n |-> 0, mode |-> "none", early |-> FALSE,
               cycles_before |-> 0, lat |-> 0,
               fetch_read |-> FALSE, fetch_addr |-> W(0),
               fetch_bits |-> W(0), wb_pc |-> W(0), mem_ops |-> <<>>,
               ret |-> "none"]
    /\ hist = <<>>

SpecJump == InitJump /\ [][NextHazard]_vars

\* C36: in a pipelined step that writes back a taken jump fetched in step
\* k, with no Halt fetched before it, the step is step k + 4, its fetch
\* reads the instruction at the jump's target A and regs[PC] is A + 1 when
\* the step returns; the instructions fetched in steps k + 1 to k + 3 are
\* in the execute, decode and fetch slots before the step and have moved on
\* by one stage after it, and every instruction fetched four or more steps
\* ago has been through its four stages, one per step.
C36_JumpCommits ==
    [][(JumpAtWriteBack /\ JumpTaken /\ ~halt_encountered) =>
          LET k == access_mem_instruction.id
              A == access_mem_instruction.addr
          IN  /\ stepno' = k + 4
              /\ last'.fetch_read /\ last'.fetch_addr = A
              /\ registers'[PC] = WAdd(A, W(1))
              /\ execute_instruction.id = k + 1
              /\ decode_instruction.id = k + 2
              /\ fetch_instruction.id = k + 3
              /\ access_mem_instruction'.id = k + 1
              /\ execute_instruction'.id = k + 2
              /\ decode_instruction'.id = k + 3
              /\ \A j \in DOMAIN hist' :
                     stepno' >= j + 4 => hist'[j].calls = StageCalls(j)]_vars

C36_Witness ==
    /\ pipeline_enabled /\ stepno = 5 /\ ~halt_encountered
    /\ hist[1].bits = JmpNearWord /\ hist[1].calls = StageCalls(1)
    /\ write_back_instruction.id = 1
    /\ last.fetch_read /\ last.fetch_addr = W(2) /\ registers[PC] = W(3)
    /\ hist[2].bits = AddWord /\ access_mem_instruction.id = 2
    /\ fetch_instruction.id = 5 /\ hist[5].bits = dram_data[W(2)]

\* ------------------------------------------ running past the loaded image
PastWords == {StoreWord, AddWord, NoopWord}

\* The addresses the image was loaded at. The Store of PastWords writes to
\* regs[8] (pipelined) or to regs[0] = 0 (not pipelined, decoded from the
\* stale bits), both inside the image.
ImageAddrs == {W(k) : k \in 0..(HazardLen - 1)}

\* ControlUnit::new in either mode over an image of HazardLen words without
\* a Halt; regs[8] is the address of one of the image's last two words.
InitPast ==
    /\ pipeline_enabled \in BOOLEAN
    /\ cache_enabled \in BOOLEAN
    /\ cycle_count = 0
    /\ registers \in {HazardRegs, [HazardRegs EXCEPT ![8] = W(HazardLen - 2)]}
    /\ first_instruction_loaded = FALSE
    /\ halt_encountered = FALSE
    /\ no_pipeline_instruction = None
    /\ fetch_instruction = None
    /\ fetch_instruction_bits = W(0)
    /\ decode_instruction = None
    /\ execute_instruction = None
    /\ access_mem_instruction = None
    /\ write_back_instruction = None
    /\ dram_delay = DramDelay
    /\ dram_data \in [ImageAddrs -> PastWords]
    /\ cache_delay = CacheDelay
    /\ num_lines = Pow2(IdxBits)
    /\ lines = [i \in 0..(num_lines - 1) |-> DMCacheLineNew]
    /\ outcome = "running"
    /\ stepno = 0
    /\ last = [n |-> 0, mode |-> "none", early |-> FALSE,
               cycles_before |-> 0, lat |-> 0,
               fetch_read |-> FALSE, fetch_addr |-> W(0),
               fetch_bits |-> W(0), wb_pc |-> W(0), mem_ops |-> <<>>,
               ret |-> "none"]
    /\ hist = <<>>

SpecPast == InitPast /\ [][Next]_vars

\* C37: the all-zero word is built as a Halt, and a step that fetches from
\* an address outside the loaded image, which no instruction has stored to,
\* reads the word 0 and leaves halt_encountered set.
C37_UnwrittenFetchHalts ==
    /\ instruction_factory(W(0)) = [ok |-> TRUE, inst |-> HaltNew,
                                    halt |-> TRUE]
    /\ (last.fetch_read /\ last.fetch_addr \notin ImageAddrs) =>
          (last.fetch_bits = W(0) /\ halt_encountered)

\* ------------------------------------------------ a fetch that fails
\* ControlUnit::new in pipelined mode over an image of HazardLen words with
\* words the factory refuses among them, behind a jump, a Store to regs[8]
\* (the address of one of the image's last two words) or an Add.
InitBad ==
    /\ pipeline_enabled = TRUE
    /\ cache_enabled \in BOOLEAN
    /\ cycle_count = 0
    /\ registers \in {HazardRegs, [HazardRegs EXCEPT ![8] = W(HazardLen - 2)]}
    /\ first_instruction_loaded = FALSE
    /\ halt_encountered = FALSE
    /\ no_pipeline_instruction = None
    /\ fetch_instruction = None
    /\ fetch_instruction_bits = W(0)
    /\ decode_instruction = None
    /\ execute_instruction = None
    /\ access_mem_instruction = None
    /\ write_back_instruction = None
    /\ dram_delay = DramDelay
    /\ dram_data \in {f \in [ImageAddrs ->
                                {JmpSWord, StoreWord, AddWord, BadWord,
                                 NoopWord}] :
                         /\ f[W(0)] \in {JmpSWord, StoreWord, AddWord}
                         /\ f[W(1)] \in {StoreWord, AddWord, BadWord}
                         /\ \A k \in 2..(HazardLen - 1) :
                                f[W(k)] \in {BadWord, NoopWord, AddWord}}
    /\ cache_delay = CacheDelay
    /\ num_lines = Pow2(IdxBits)
    /\ lines = [i \in 0..(num_lines - 1) |-> DMCacheLineNew]
    /\ outcome = "running"
    /\ stepno = 0
    /\ last = [n |-> 0, mode |-> "none", early |-> FALSE,
               cycles_before |-> 0, lat |-> 0,
               fetch_read |-> FALSE, fetch_addr |-> W(0),
               fetch_bits |-> W(0), wb_pc |-> W(0), mem_ops |-> <<>>,
               ret |-> "none"]
    /\ hist = <<>>

SpecBad == InitBad /\ [][NextHazard]_vars

\* The instruction in `slot` has had `stage` called by this step and is in
\* `next` after it.
Advanced(slot, stage, next) ==
    IF IsSome(slot)
    THEN /\ IsSome(next) /\ next.id = slot.id
         /\ hist'[slot.id].calls
               = Append(hist[slot.id].calls, <<stage, stepno'>>)
    ELSE next = None

\* A pipelined step whose fetch reads a word the factory refuses returns
\* Err; regs[PC] is not incremented and the registers are as the step's
\* write back left them; the fetch slot is empty; the four other stages
\* have been called and their instructions handed on; the words the access
\* memory stage stored are in the memory.
FailedFetchStep ==
    (/\ pipeline_enabled /\ stepno' = stepno + 1
     /\ last'.fetch_read /\ ~instruction_factory(last'.fetch_bits).ok) =>
        /\ last'.ret = "Err"
        /\ registers' = WriteBackStage(access_mem_instruction, registers)
        /\ registers'[PC] = last'.fetch_addr
        /\ fetch_instruction' = None
        /\ Advanced(access_mem_instruction, "write_back",
                    write_back_instruction')
        /\ Advanced(execute_instruction, "access_memory",
                    access_mem_instruction')
        /\ Advanced(decode_instruction, "execute", execute_instruction')
        /\ Advanced(fetch_instruction, "decode", decode_instruction')
        /\ last'.mem_ops
              = AccessMemoryStage(execute_instruction, MemState).ops
        /\ \A i \in DOMAIN last'.mem_ops :
              last'.mem_ops[i][1] = "set" =>
                  MemGet([data |-> dram_data', lines |-> lines'],
                         last'.mem_ops[i][2]).val = last'.mem_ops[i][3]

\* The step() call after one that returned Err for the fetched word.
StepAfterFailedFetch ==
    /\ pipeline_enabled /\ stepno' = stepno + 1
    /\ last.ret = "Err"

\* The call reads the address of the failed fetch and returns Err.
FetchFailsAgain ==
    /\ last'.fetch_read /\ last'.fetch_addr = last.fetch_addr
    /\ last'.ret = "Err"

\* The call's write back leaves regs[PC] as it is and its access memory
\* stage stores no word at the address of the failed fetch nor, with the
\* cache enabled, at an address of the same cache line (the fetch's get
\* would evict that word to the address it reads, memory.rs 458).
FetchUndisturbed ==
    /\ last'.wb_pc = registers[PC]
    /\ \A i \in DOMAIN last'.mem_ops :
          last'.mem_ops[i][1] = "set" =>
              /\ last'.mem_ops[i][2] # last.fetch_addr
              /\ cache_enabled =>
                    get_address_index(last'.mem_ops[i][2])
                       # get_address_index(last.fetch_addr)

C39_StoppedStaysStopped ==
    [][/\ (pipeline_enabled /\ last'.ret = "Ok(false)") =>
              (HaltIds # {} /\ halt_encountered')
       /\ (pipeline_enabled /\ last.ret = "Ok(false)"
           /\ stepno' = stepno + 1) =>
              /\ last'.ret = "Ok(false)"
              /\ ~last'.fetch_read /\ last'.mem_ops = <<>>
              /\ dram_data' = dram_data /\ lines' = lines
              /\ fetch_instruction' = None /\ decode_instruction' = None
              /\ execute_instruction' = None
              /\ access_mem_instruction' = None
              /\ write_back_instruction' = None
              /\ registers' = [registers EXCEPT
                                  ![PC] = WAdd(registers[PC], W(1))]
              /\ cycle_count' = cycle_count + 1]_vars

\* A Halt at address 0: step 5 is the first to return Ok(false), steps 6
\* and 7 have followed.
C39_Witness ==
    /\ pipeline_enabled /\ stepno = 7 /\ last.ret = "Ok(false)"
    /\ hist[1].bits = HaltWord /\ DOMAIN hist = {1}
    /\ registers[PC] = W(7) /\ ~last.fetch_read
    /\ fetch_instruction = None /\ decode_instruction = None
    /\ execute_instruction = None /\ access_mem_instruction = None
    /\ write_back_instruction = None

=============================================================================
